---- MODULE Spec2Model ----
(***************************************************************************)
(* The client fast path of shadowtun: the warm connection pool             *)
(* (cmd/shadowtls/pool.go), and the flow handler with tunnel acquisition,  *)
(* stale detection and the bidirectional relay (the client file holding    *)
(* Run, handleConnection, acquireTunnel, relay and copyConn).              *)
(*                                                                         *)
(* Every goroutine is a process with a program counter.  One action is one *)
(* step of the Go code: one channel operation or select, one call into the *)
(* opaque factory, one net.Conn operation, each together with the local    *)
(* code that follows it.  A select with several ready cases chooses any of *)
(* them.                                                                   *)
(*                                                                         *)
(* Time advances in ticks of 5 s, so the 5 s shutdown grace of Stop is one *)
(* tick.  A tick ages every connection the pool holds and every running    *)
(* timer; an age or timer past every threshold it is compared with stops   *)
(* counting.  Local code takes no time: the clock ticks only when every    *)
(* goroutine waits for the environment (the factory, a net.Conn read or    *)
(* write, a caller, a signal) or blocks in a select none of whose cases is *)
(* ready.  Outcomes of the factory and of net.Conn reads and writes are    *)
(* chosen by the environment.                                              *)
(*                                                                         *)
(* Spec     : the pool under any interleaving of its workers, of consumers *)
(*            that call Get and of one call of Stop.                       *)
(* SpecFlow : Client.Run with one accepted flow over a pool of size one.   *)
(* FairSpecFlow : SpecFlow with the fairness of the relay's goroutines.    *)
(* SpecFlowRec : SpecFlow with the history of the relay's write errors.    *)
(* FairSpecRelay : SpecFlow with the fairness of the relay's two copies.   *)
(* SpecAge  : Spec with the hit path of Get in its two atomic steps,       *)
(*            PoolHits.Add(1) and then RecordPoolAge.                      *)
(* SpecWide : Spec with more factory calls explored.                       *)
(* FairSpecStop  : Spec with every runnable goroutine running, while a     *)
(*                 factory call may never return.                          *)
(* FairSpecWatcher : SpecFlow with the fairness of relay's watcher.        *)
(* FairSpecWarm  : the pool with a factory that always succeeds, no Stop.  *)
(* FairSpecCold  : the pool with a factory that always fails.              *)
(* SpecData : the bytes of one flow: the initial read, the verify round    *)
(*            trip, the forwarded first response and the two copyConn      *)
(*            loops, over streams whose bytes are numbered by position.    *)
(* SpecStats: the atomic operations of ConnStart, ConnEnd and              *)
(*            RecordConnectTime, one at a time, interleaved with the loads *)
(*            of a Snapshot.                                               *)
(***************************************************************************)
EXTENDS Integers, Sequences, FiniteSets, TLC

\* ------------------------------------------------------------------ bounds
PoolDials == 2     \* factory calls explored under Spec
FlowDials == 3     \* factory calls explored under SpecFlow
WarmDials == 4     \* factory calls explored under FairSpecWarm
ColdDials == 3     \* factory calls explored under FairSpecCold
WideDials == 3     \* factory calls explored under SpecWide
TTL       == 1     \* ttl argument of NewConnPool, in ticks
MaxData   == 3     \* longest stream a peer sends under SpecData
MaxChunk  == 2     \* most bytes one Read returns under SpecData (the buffer size)
MaxNs     == 2     \* longest duration recorded under SpecStats

\* ------------------------------------------------------- program constants
Grace      == 1    \* time.After(5 * time.Second) in Stop: one tick
Backoff    == 1    \* the default backoff of 5 s: one tick
maxRetries == 3
MaxInt64   == 2147483647   \* int64(^uint64(0) >> 1), cut to the integers of the checker

PoolSizes == {1, 2}            \* size argument of NewConnPool under Spec
Consumers == {"c1", "c2"}      \* callers of Get under Spec
Flows     == {"f1"}            \* accepted local connections under SpecFlow
Callers   == Consumers \cup Flows
NoConn    == 0
Handlers  == {"h1", "h2"}      \* flows that call ConnStart and ConnEnd under SpecStats
Recorders == {"r1", "r2"}      \* callers of RecordConnectTime under SpecStats
Dirs      == {"out", "in"}     \* the two copies of relay: local -> tunnel, tunnel -> local

VARIABLES
    size,         \* ConnPool.size: number of workers, capacity of the channel
    dialBudget,   \* factory calls the specification explores
    stopped,      \* ConnPool.stopped
    ctxDone,      \* ConnPool.ctx is cancelled
    connections,  \* ConnPool.connections: the buffered channel, a sequence of conn ids
    conn,         \* every connection a factory call returned, by id
    nfail,        \* factory calls that failed so far
    stats,        \* the Stats counters
    wpc, whold, wtimer,    \* worker goroutines: position, connection in hand, backoff timer
    gpc, gctx, gres, gafter,  \* Get calls: position, ctx done, result, called after Stop returned
    spc, stimer, swarned,  \* the Stop call: position, grace timer, timeout warning logged
    rootDone,     \* Run's ctx is cancelled (SIGINT/SIGTERM)
    listenerClosed, \* listener.Close() was called
    rpc,          \* Run's position
    fpc, attempt, ftun, fres, \* flow handler: position, acquire attempt, tunnel, outcome
    localClosed,  \* times the flow's local stream was closed
    wat, cpc, done, connDone, cancelSeen,  \* relay: watcher, the two copies, channels
    \* the bytes of a flow (SpecData)
    echo,         \* the upstream echoes what it receives
    streamLen,    \* bytes the local client sends in all
    localSend,    \* bytes the local client has still to send
    localRecv,    \* bytes written to the local stream
    tunSend,      \* bytes the upstream has still to deliver
    tunRecv,      \* bytes written to the tunnel
    tunRead,      \* bytes read from the tunnel so far
    closedD,      \* which of the two streams has been closed
    dpc,          \* the handler's position
    initialData,  \* initialBuf[:n]
    firstResponse,\* respBuf[:n] as acquireTunnel returned it
    cp,           \* the two copyConn calls: position, buf[:n], read error, total
    writeFailed,  \* a Write on the local stream / on the tunnel has failed
    \* the atomic steps of the Stats operations (SpecStats)
    cs,           \* ConnStart / ConnEnd callers: position, `active`, `old`
    rec,          \* RecordConnectTime callers: position, ns, `old`
    snapPc, snap, \* the Snapshot call: position, the fields loaded so far
    relayErr      \* history (SpecFlowRec): a dst.Write of the flow's relay returned an error

poolVars   == <<size, dialBudget, stopped, ctxDone, connections>>
workerVars == <<wpc, whold, wtimer>>
getVars    == <<gpc, gctx, gres, gafter>>
stopVars   == <<spc, stimer, swarned>>
runVars    == <<rootDone, listenerClosed, rpc>>
flowVars   == <<fpc, attempt, ftun, fres, localClosed>>
relayVars  == <<wat, cpc, done, connDone, cancelSeen>>

dataVars   == <<echo, streamLen, localSend, localRecv, tunSend, tunRecv, tunRead, closedD, dpc,
                initialData, firstResponse, cp, writeFailed>>
obsVars    == <<cs, rec, snapPc, snap>>
histVars   == <<relayErr>>
auxVars    == <<dataVars, obsVars, histVars>>

\* everything but the Stats counters and the auxiliary variables
coreVars   == <<poolVars, conn, nfail, workerVars, getVars, stopVars,
                runVars, flowVars, relayVars>>

vars == <<poolVars, conn, nfail, stats, workerVars, getVars, stopVars,
          runVars, flowVars, relayVars, auxVars>>

\* ------------------------------------------------------------ connections
\* A connection a factory call returned.  age is time.Since(createdAt) while
\* the pool holds it; the counters record what happened to it: enqueued,
\* dequeued, returned by Get, closed, verify writes that succeeded / failed,
\* verify reads that returned data / failed, whether the relay has read from it, and
\* reads issued while no write had succeeded yet.
NewConn(origin) ==
    [origin |-> origin, age |-> 0, enq |-> 0, deq |-> 0, ret |-> 0, closed |-> 0,
     fromPool |-> FALSE, poolAge |-> 0,
     wok |-> 0, werr |-> 0, rok |-> 0, rerr |-> 0, relayRead |-> FALSE, earlyReads |-> 0]

Ids == 1..Len(conn)
NextId == Len(conn) + 1

Bump(c, id, field) == [c EXCEPT ![id][field] = @ + 1]

\* net.Conn.Close on a tunnel
Close(c, id) == [c EXCEPT ![id].closed = @ + 1, ![id].age = 0]

\* the opaque factory can still return (the budget of the specification)
FactoryCanReturn == Len(conn) + nfail < dialBudget

\* ---------------------------------------------------------------- channel
\* cap(p.connections), from make(chan *pooledConn, size)
Capacity == size

\* mutant: the send proceeds whether or not the buffer has room
CanSend_Unbounded(q) == TRUE

\* `case p.connections <- pc` can proceed
CanSend(q) == Len(q) < Capacity

\* `case pc := <-p.connections` can proceed
CanRecv(q) == Len(q) > 0

\* mutant: the receive leaves the element in the channel
AfterRecv_Peek(q) == q

\* the channel after a receive
AfterRecv(q) == Tail(q)

\* the channel after sending id
AfterSend(q, id) == Append(q, id)

\* `p.stopped.Load() || p.ctx.Err() != nil`
ShutdownSeen == stopped \/ ctxDone

\* a timer of duration d that has run for `elapsed` ticks has fired
Fired(elapsed, d) == elapsed >= d

\* mutant: the expiry test is off by one tick
Fresh_OffByOne(age) == age <= TTL + 1

\* `poolAge <= p.ttl` in Get
Fresh(age) == age <= TTL

Inc(s, field) == [s EXCEPT ![field] = @ + 1]

\* the worker goroutines Start spawns: `for i := 0; i < p.size; i++`
AllWorkers == UNION {1..n : n \in PoolSizes}
Workers == {w \in AllWorkers : w <= size}

\* ------------------------------------------------------------------- Init
\* NewStats: every counter is zero
InitStats ==
    [PoolCreated |-> 0, PoolExpired |-> 0, PoolFailed |-> 0, PoolDiscarded |-> 0,
     PoolStale |-> 0, PoolHits |-> 0, PoolMisses |-> 0,
     ActiveConns |-> 0, TotalConns |-> 0, ConnErrors |-> 0,
     peakActiveConns |-> 0, TotalBytes |-> 0,
     ConnectTimeTotal |-> 0, ConnectTimeCount |-> 0,
     ConnectTimeMin |-> MaxInt64, ConnectTimeMax |-> 0,
     ConnLifetimeCount |-> 0, PoolAgeCount |-> 0]

NoResult == [id |-> NoConn, err |-> "none"]

\* NewConnPool(n, ...) followed by Start: n workers at the top of their loop,
\* an empty channel of capacity n; nobody has called Get or Stop yet.
InitCore(n, budget) ==
    /\ size = n
    /\ dialBudget = budget
    /\ stopped = FALSE
    /\ ctxDone = FALSE
    /\ connections = << >>
    /\ conn = << >>
    /\ nfail = 0
    /\ stats = InitStats
    /\ wpc = [w \in AllWorkers |-> IF w <= n THEN "check" ELSE "none"]
    /\ whold = [w \in AllWorkers |-> NoConn]
    /\ wtimer = [w \in AllWorkers |-> 0]
    /\ gpc = [c \in Callers |-> "idle"]
    /\ gctx = [c \in Callers |-> FALSE]
    /\ gres = [c \in Callers |-> NoResult]
    /\ gafter = [c \in Callers |-> FALSE]
    /\ spc = "idle"
    /\ stimer = 0
    /\ swarned = FALSE
    /\ rootDone = FALSE
    /\ listenerClosed = FALSE
    /\ rpc = "accept"
    /\ fpc = [f \in Flows |-> "idle"]
    /\ attempt = [f \in Flows |-> 0]
    /\ ftun = [f \in Flows |-> NoConn]
    /\ fres = [f \in Flows |-> "none"]
    /\ localClosed = [f \in Flows |-> 0]
    /\ wat = [f \in Flows |-> "none"]
    /\ cpc = [f \in Flows |-> [out |-> "none", in |-> "none"]]
    /\ done = [f \in Flows |-> 0]
    /\ connDone = [f \in Flows |-> FALSE]
    /\ cancelSeen = [f \in Flows |-> FALSE]

\* no flow has been accepted: the streams of SpecData do not exist yet
NoCopy == [pc |-> "none", buf |-> << >>, err |-> FALSE, total |-> 0]

DataIdle ==
    /\ echo = FALSE
    /\ streamLen = 0
    /\ localSend = << >>
    /\ localRecv = << >>
    /\ tunSend = << >>
    /\ tunRecv = << >>
    /\ tunRead = << >>
    /\ closedD = [local |-> FALSE, tunnel |-> FALSE]
    /\ dpc = "none"
    /\ initialData = << >>
    /\ firstResponse = << >>
    /\ cp = [d \in Dirs |-> NoCopy]
    /\ writeFailed = [local |-> FALSE, tunnel |-> FALSE]

\* nobody is inside a Stats operation
NoSnap == [ActiveConns |-> 0, PeakConns |-> 0,
           count |-> 0, Avg |-> 0, Min |-> 0, Max |-> 0]

ObsIdle ==
    /\ cs = [h \in Handlers |-> [pc |-> "idle", active |-> 0, old |-> 0]]
    /\ rec = [r \in Recorders |-> [pc |-> "idle", ns |-> 0, old |-> 0]]
    /\ snapPc = "idle"
    /\ snap = NoSnap

\* no write of a relay has failed
HistIdle == relayErr = [f \in Flows |-> FALSE]

InitCommon(n, budget) == InitCore(n, budget) /\ DataIdle /\ ObsIdle /\ HistIdle

Init == \E n \in PoolSizes : InitCommon(n, PoolDials)

clientVars == <<runVars, flowVars, relayVars>>

\* ----------------------------------------------------------------- worker
\* top of the loop: the shutdown check, then the call into the factory
WorkerCheck(w) ==
    /\ wpc[w] = "check"
    /\ wpc' = [wpc EXCEPT ![w] = IF ShutdownSeen THEN "done" ELSE "dial"]
    /\ UNCHANGED <<auxVars, poolVars, conn, nfail, stats, whold, wtimer, getVars, stopVars, clientVars>>

\* the factory returns a connection: it is counted and wrapped with
\* createdAt = now, and the worker enters the select that hands it over
\* (the time.After(p.ttl) of that select starts with the connection's age)
WorkerDialOk(w) ==
    /\ wpc[w] = "dial"
    /\ FactoryCanReturn
    /\ conn' = Append(conn, NewConn("worker"))
    /\ stats' = Inc(stats, "PoolCreated")
    /\ whold' = [whold EXCEPT ![w] = NextId]
    /\ wpc' = [wpc EXCEPT ![w] = "send"]
    /\ UNCHANGED <<auxVars, poolVars, nfail, wtimer, getVars, stopVars, clientVars>>

\* mutant: the worker gives up after a failed dial
AfterDialErr_Return == "done"

\* mutant: the failure is counted and backed off whatever the shutdown state
AfterDialErr_NoCheck == "backoff"

\* where the worker goes when the factory has failed
AfterDialErr == IF ShutdownSeen THEN "done" ELSE "backoff"

\* the factory returns an error: exit on shutdown, else count it and back off
WorkerDialErr(w) ==
    /\ wpc[w] = "dial"
    /\ FactoryCanReturn
    /\ nfail' = nfail + 1
    /\ wpc' = [wpc EXCEPT ![w] = AfterDialErr]
    /\ stats' = IF AfterDialErr = "backoff" THEN Inc(stats, "PoolFailed") ELSE stats
    /\ UNCHANGED <<auxVars, poolVars, conn, whold, wtimer, getVars, stopVars, clientVars>>

\* backoff select, case <-time.After(p.backoff): continue
WorkerBackoffElapsed(w) ==
    /\ wpc[w] = "backoff"
    /\ Fired(wtimer[w], Backoff)
    /\ wpc' = [wpc EXCEPT ![w] = "check"]
    /\ wtimer' = [wtimer EXCEPT ![w] = 0]
    /\ UNCHANGED <<auxVars, poolVars, conn, nfail, stats, whold, getVars, stopVars, clientVars>>

\* backoff select, case <-p.ctx.Done(): return
WorkerBackoffCancelled(w) ==
    /\ wpc[w] = "backoff"
    /\ ctxDone
    /\ wpc' = [wpc EXCEPT ![w] = "done"]
    /\ wtimer' = [wtimer EXCEPT ![w] = 0]
    /\ UNCHANGED <<auxVars, poolVars, conn, nfail, stats, whold, getVars, stopVars, clientVars>>

\* mutant: the worker returns once it has handed a connection over
AfterHandOver_Return == "done"

\* the hand-over select is the last statement of the loop body: the worker
\* goes back to the top of `for {`
AfterHandOver == "check"

\* hand-over select, case p.connections <- pc
WorkerSend(w) ==
    /\ wpc[w] = "send"
    /\ CanSend(connections)
    /\ connections' = AfterSend(connections, whold[w])
    /\ conn' = Bump(conn, whold[w], "enq")
    /\ whold' = [whold EXCEPT ![w] = NoConn]
    /\ wpc' = [wpc EXCEPT ![w] = AfterHandOver]
    /\ UNCHANGED <<auxVars, size, dialBudget, stopped, ctxDone, nfail, stats, wtimer,
                   getVars, stopVars, clientVars>>

\* mutant: the discarded connection is not counted
AfterDiscard_Uncounted(s) == s

\* p.stats.PoolDiscarded.Add(1)
AfterDiscard(s) == Inc(s, "PoolDiscarded")

\* hand-over select, case <-time.After(p.ttl): discard the connection
WorkerDiscard(w) ==
    /\ wpc[w] = "send"
    /\ Fired(conn[whold[w]].age, TTL)
    /\ stats' = AfterDiscard(stats)
    /\ conn' = Close(conn, whold[w])
    /\ whold' = [whold EXCEPT ![w] = NoConn]
    /\ wpc' = [wpc EXCEPT ![w] = "check"]
    /\ UNCHANGED <<auxVars, poolVars, nfail, wtimer, getVars, stopVars, clientVars>>

\* hand-over select, case <-p.ctx.Done(): close the connection and return
WorkerSendCancelled(w) ==
    /\ wpc[w] = "send"
    /\ ctxDone
    /\ conn' = Close(conn, whold[w])
    /\ whold' = [whold EXCEPT ![w] = NoConn]
    /\ wpc' = [wpc EXCEPT ![w] = "done"]
    /\ UNCHANGED <<auxVars, poolVars, nfail, stats, wtimer, getVars, stopVars, clientVars>>

WorkerStep(w) ==
    \/ WorkerCheck(w)
    \/ WorkerDialOk(w)
    \/ WorkerDialErr(w)
    \/ WorkerBackoffElapsed(w)
    \/ WorkerBackoffCancelled(w)
    \/ WorkerSend(w)
    \/ WorkerDiscard(w)
    \/ WorkerSendCancelled(w)

\* -------------------------------------------------------------------- Get
\* ctx.Done() of the context Get was called with is ready: the caller's own
\* context was cancelled or timed out, or (for a flow) Run's context was
CtxIsDone(c) == gctx[c] \/ (c \in Flows /\ rootDone)

\* Get is entered: waitStart := time.Now()
GetEnter(c) ==
    /\ gpc[c] \in {"idle", "ret"}
    /\ gpc' = [gpc EXCEPT ![c] = "poll"]
    /\ gctx' = [gctx EXCEPT ![c] = FALSE]
    /\ gres' = [gres EXCEPT ![c] = NoResult]
    /\ gafter' = [gafter EXCEPT ![c] = (spc = "returned")]

\* the context of a Get call in its select is cancelled or times out (a
\* cancellation at any other point of Get has no effect before the next select)
CtxCancel(c) ==
    /\ gpc[c] = "poll"
    /\ ~gctx[c]
    /\ gctx' = [gctx EXCEPT ![c] = TRUE]
    /\ UNCHANGED <<auxVars, poolVars, conn, nfail, stats, workerVars, gpc, gres, gafter,
                   stopVars, clientVars>>

\* what Get does with the connection it has received
Returned(c, id, age) ==
    [c EXCEPT ![id].deq = @ + 1, ![id].ret = @ + 1, ![id].fromPool = TRUE,
              ![id].poolAge = age, ![id].age = 0]

\* mutant: the expired connection is dropped without being closed
Expire_NoClose(c, id) == Bump(c, id, "deq")

\* the expired connection Get received: pc.Conn.Close()
Expire(c, id) == Close(Bump(c, id, "deq"), id)

\* select case pc := <-p.connections, then poolAge := time.Since(pc.createdAt):
\* a fresh connection is returned, an expired one is counted and closed and
\* the loop polls again.  The receive and the age test are one step: nobody
\* else can see the connection in between.
GetRecv(c) ==
    /\ gpc[c] = "poll"
    /\ CanRecv(connections)
    /\ connections' = AfterRecv(connections)
    /\ LET id == Head(connections)
           age == conn[id].age
       IN IF Fresh(age)
            THEN /\ stats' = Inc(stats, "PoolHits")
                 /\ conn' = Returned(conn, id, age)
                 /\ gres' = [gres EXCEPT ![c] = [id |-> id, err |-> "none"]]
                 /\ gpc' = [gpc EXCEPT ![c] = "ret"]
            ELSE /\ stats' = Inc(stats, "PoolExpired")
                 /\ conn' = Expire(conn, id)
                 /\ UNCHANGED <<gpc, gres>>
    /\ UNCHANGED <<auxVars, size, dialBudget, stopped, ctxDone, nfail, workerVars, gctx, gafter,
                   stopVars, clientVars>>

\* the hit path of Get up to p.stats.PoolHits.Add(1): the receive of a fresh
\* connection and the count of the hit
GetHit(c) ==
    /\ gpc[c] = "poll"
    /\ CanRecv(connections)
    /\ Fresh(conn[Head(connections)].age)
    /\ connections' = AfterRecv(connections)
    /\ stats' = Inc(stats, "PoolHits")
    /\ conn' = Returned(conn, Head(connections), conn[Head(connections)].age)
    /\ gres' = [gres EXCEPT ![c] = [id |-> Head(connections), err |-> "none"]]
    /\ gpc' = [gpc EXCEPT ![c] = "record"]
    /\ UNCHANGED <<auxVars, size, dialBudget, stopped, ctxDone, nfail, workerVars, gctx, gafter,
                   stopVars, clientVars>>

\* the rest of the hit path: p.stats.RecordPoolAge(poolAge), whose
\* s.PoolAgeCount.Add(1) counts the sample, and the return
GetRecordAge(c) ==
    /\ gpc[c] = "record"
    /\ stats' = Inc(stats, "PoolAgeCount")
    /\ gpc' = [gpc EXCEPT ![c] = "ret"]
    /\ UNCHANGED <<auxVars, poolVars, conn, nfail, workerVars, gctx, gres, gafter,
                   stopVars, clientVars>>

\* the receive of an expired connection: counted, closed, and the loop polls again
GetExpired(c) ==
    /\ CanRecv(connections)
    /\ ~Fresh(conn[Head(connections)].age)
    /\ GetRecv(c)

\* select case <-ctx.Done(): return nil, ctx.Err()
GetCtxDone(c) ==
    /\ gpc[c] = "poll"
    /\ CtxIsDone(c)
    /\ gres' = [gres EXCEPT ![c] = [id |-> NoConn, err |-> "ctx"]]
    /\ gpc' = [gpc EXCEPT ![c] = "ret"]
    /\ UNCHANGED <<auxVars, poolVars, conn, nfail, stats, workerVars, gctx, gafter,
                   stopVars, clientVars>>

\* mutant: the miss is counted as a hit
AfterMiss_AsHit(s) == Inc(s, "PoolHits")

\* mutant: the miss is not counted
AfterMiss_NoCount(s) == s

\* p.stats.PoolMisses.Add(1), before the factory is called
AfterMiss(s) == Inc(s, "PoolMisses")

\* select default, taken when no other case is ready: count the miss and
\* call the factory
GetMiss(c) ==
    /\ gpc[c] = "poll"
    /\ ~CanRecv(connections)
    /\ ~CtxIsDone(c)
    /\ stats' = AfterMiss(stats)
    /\ gpc' = [gpc EXCEPT ![c] = "dial"]
    /\ UNCHANGED <<auxVars, poolVars, conn, nfail, workerVars, gctx, gres, gafter,
                   stopVars, clientVars>>

\* mutant: the dialed connection is reported as pooled
Dialed_FromPool == [NewConn("get") EXCEPT !.ret = 1, !.fromPool = TRUE]

\* &PooledConn{Conn: conn, ConnectTime: connectTime, PoolAge: 0,
\* FromPool: false}, returned to the caller
Dialed == [NewConn("get") EXCEPT !.ret = 1]

\* p.factory(ctx) returns a connection: FromPool false, PoolAge 0
GetDialOk(c) ==
    /\ gpc[c] = "dial"
    /\ FactoryCanReturn
    /\ conn' = Append(conn, Dialed)
    /\ gres' = [gres EXCEPT ![c] = [id |-> NextId, err |-> "none"]]
    /\ gpc' = [gpc EXCEPT ![c] = "ret"]
    /\ UNCHANGED <<auxVars, poolVars, nfail, stats, workerVars, gctx, gafter, stopVars, clientVars>>

\* p.factory(ctx) fails: return nil, err
GetDialErr(c) ==
    /\ gpc[c] = "dial"
    /\ FactoryCanReturn
    /\ nfail' = nfail + 1
    /\ gres' = [gres EXCEPT ![c] = [id |-> NoConn, err |-> "dial"]]
    /\ gpc' = [gpc EXCEPT ![c] = "ret"]
    /\ UNCHANGED <<auxVars, poolVars, conn, stats, workerVars, gctx, gafter, stopVars, clientVars>>

GetStep(c) ==
    \/ GetRecv(c)
    \/ GetCtxDone(c)
    \/ GetMiss(c)
    \/ GetDialOk(c)
    \/ GetDialErr(c)

\* a consumer calls Get (once) with a context of its own
ConsumerGet(c) ==
    /\ gpc[c] = "idle"
    /\ GetEnter(c)
    /\ UNCHANGED <<auxVars, poolVars, conn, nfail, stats, workerVars, stopVars, clientVars>>

\* ------------------------------------------------------------------- Stop
\* p.stopped.Store(true)
StopStore ==
    /\ spc = "idle"
    /\ stopped' = TRUE
    /\ spc' = "cancel"
    /\ UNCHANGED <<size, dialBudget, ctxDone, connections, conn, nfail, stats,
                   workerVars, getVars, stimer, swarned>>

\* p.cancel(); then the select on `done` and time.After(5s) is entered
StopCancel ==
    /\ spc = "cancel"
    /\ ctxDone' = TRUE
    /\ spc' = "wait"
    /\ UNCHANGED <<auxVars, size, dialBudget, stopped, connections, conn, nfail, stats,
                   workerVars, getVars, stimer, swarned, clientVars>>

\* p.wg.Wait() returns: every worker has run its deferred wg.Done
WorkersDone == \A w \in Workers : wpc[w] = "done"

\* case <-done: the workers finished
StopWorkersDone ==
    /\ spc = "wait"
    /\ WorkersDone
    /\ spc' = "drain"
    /\ stimer' = 0
    /\ UNCHANGED <<auxVars, poolVars, conn, nfail, stats, workerVars, getVars, swarned, clientVars>>

\* mutant: the select of Stop has no timer case
GraceExpired_Never == FALSE

\* the time.After(5 * time.Second) of Stop's select has fired
GraceExpired == Fired(stimer, Grace)

\* case <-time.After(5 * time.Second): log the warning and go on
StopTimeout ==
    /\ spc = "wait"
    /\ GraceExpired
    /\ spc' = "drain"
    /\ stimer' = 0
    /\ swarned' = TRUE
    /\ UNCHANGED <<auxVars, poolVars, conn, nfail, stats, workerVars, getVars, clientVars>>

\* drain loop, case pc := <-p.connections: close it
StopDrainRecv ==
    /\ spc = "drain"
    /\ CanRecv(connections)
    /\ connections' = AfterRecv(connections)
    /\ conn' = Close(Bump(conn, Head(connections), "deq"), Head(connections))
    /\ UNCHANGED <<auxVars, size, dialBudget, stopped, ctxDone, nfail, stats, workerVars,
                   getVars, stopVars, clientVars>>

\* drain loop, default: goto drained, Stop returns
StopDrained ==
    /\ spc = "drain"
    /\ ~CanRecv(connections)
    /\ spc' = "returned"
    /\ UNCHANGED <<auxVars, poolVars, conn, nfail, stats, workerVars, getVars, stimer, swarned,
                   clientVars>>

StopStep ==
    \/ StopCancel
    \/ StopWorkersDone
    \/ StopTimeout
    \/ StopDrainRecv
    \/ StopDrained

\* some client of the pool calls Stop
StopCall ==
    /\ StopStore
    /\ UNCHANGED <<auxVars, clientVars>>

\* ------------------------------------------------------------ flow handler
poolAll == <<poolVars, workerVars, stopVars>>

\* the tunnel of flow f
Tun(f) == ftun[f]

\* a read is issued on tunnel id: it counts as early when no write of the
\* flow's initial bytes has succeeded on that connection
ReadIssued(c, id) ==
    IF c[id].wok = 0 THEN [c EXCEPT ![id].earlyReads = @ + 1] ELSE c

\* listener.Accept returns a connection: wg.Add(1); go handleConnection
Accept(f) ==
    /\ rpc = "accept"
    /\ ~listenerClosed
    /\ fpc[f] = "idle"
    /\ fpc' = [fpc EXCEPT ![f] = "start"]
    /\ UNCHANGED <<auxVars, poolAll, conn, nfail, stats, getVars, runVars, attempt, ftun, fres,
                   localClosed, relayVars>>

\* the counters after a whole ConnStart: TotalConns.Add(1), ActiveConns.Add(1)
\* and atomicMax(&s.peakActiveConns, active)
ConnStartDone(s) ==
    LET active == s.ActiveConns + 1
    IN [s EXCEPT !.TotalConns = @ + 1,
                 !.ActiveConns = active,
                 !.peakActiveConns = IF active <= @ THEN @ ELSE active]

\* c.stats.ConnStart(), the defers are registered
FlowStart(f) ==
    /\ fpc[f] = "start"
    /\ stats' = ConnStartDone(stats)
    /\ fpc' = [fpc EXCEPT ![f] = "initread"]
    /\ UNCHANGED <<auxVars, poolAll, conn, nfail, getVars, runVars, attempt, ftun, fres,
                   localClosed, relayVars>>

\* local.Read(initialBuf) returns data (n > 0, no error)
FlowInitReadOk(f) ==
    /\ fpc[f] = "initread"
    /\ fpc' = [fpc EXCEPT ![f] = "acquire"]
    /\ attempt' = [attempt EXCEPT ![f] = 0]
    /\ UNCHANGED <<auxVars, poolAll, conn, nfail, stats, getVars, runVars, ftun, fres,
                   localClosed, relayVars>>

\* mutant: the error return skips the deferred calls
FlowFail_NoDefer(f, why) ==
    /\ stats' = Inc(stats, "ConnErrors")
    /\ fres' = [fres EXCEPT ![f] = why]
    /\ fpc' = [fpc EXCEPT ![f] = "done"]

\* the handler returns with an error: c.stats.ConnErrors.Add(1); return
FlowFail(f, why) ==
    /\ stats' = Inc(stats, "ConnErrors")
    /\ fres' = [fres EXCEPT ![f] = why]
    /\ fpc' = [fpc EXCEPT ![f] = "exit"]

\* local.Read fails or returns nothing within 10 s
FlowInitReadErr(f) ==
    /\ fpc[f] = "initread"
    /\ FlowFail(f, "noinitial")
    /\ UNCHANGED <<auxVars, poolAll, conn, nfail, getVars, runVars, attempt, ftun,
                   localClosed, relayVars>>

\* ------------------------------------------------------------ acquireTunnel
\* mutant: the loop gives up one attempt early
MoreAttempts_OneLess(n) == n < maxRetries - 1

\* the loop condition `attempt < maxRetries`
MoreAttempts(n) == n < maxRetries

\* top of the loop with attempts left: tunnel, err := pool.Get(getCtx)
AcqGet(f) ==
    /\ fpc[f] = "acquire"
    /\ MoreAttempts(attempt[f])
    /\ GetEnter(f)
    /\ fpc' = [fpc EXCEPT ![f] = "getting"]
    /\ UNCHANGED <<auxVars, poolAll, conn, nfail, stats, runVars, attempt, ftun, fres,
                   localClosed, relayVars>>

\* the loop is over: return the "all pool connections stale" error, and the
\* handler counts the error and returns
AcqExhausted(f) ==
    /\ fpc[f] = "acquire"
    /\ ~MoreAttempts(attempt[f])
    /\ FlowFail(f, "allstale")
    /\ UNCHANGED <<auxVars, poolAll, conn, nfail, getVars, runVars, attempt, ftun,
                   localClosed, relayVars>>

\* pool.Get has returned an error: acquireTunnel returns it
AcqGetErr(f) ==
    /\ fpc[f] = "getting"
    /\ gpc[f] = "ret"
    /\ gres[f].err # "none"
    /\ FlowFail(f, "geterr")
    /\ UNCHANGED <<auxVars, poolAll, conn, nfail, getVars, runVars, attempt, ftun,
                   localClosed, relayVars>>

\* mutant: the tunnel is read-probed without writing first
AfterGetOk_ReadProbe == "vread"

\* what acquireTunnel does with the tunnel pool.Get returned: the verify write
AfterGetOk == "vwrite"

\* pool.Get has returned a tunnel: go on to the verify write
AcqGetOk(f) ==
    /\ fpc[f] = "getting"
    /\ gpc[f] = "ret"
    /\ gres[f].err = "none"
    /\ ftun' = [ftun EXCEPT ![f] = gres[f].id]
    /\ fpc' = [fpc EXCEPT ![f] = AfterGetOk]
    /\ UNCHANGED <<auxVars, poolAll, conn, nfail, stats, getVars, runVars, attempt, fres,
                   localClosed, relayVars>>

\* mutant: a stale tunnel is closed and retried without being counted
Stale_Uncounted(f) ==
    /\ stats' = stats
    /\ ftun' = [ftun EXCEPT ![f] = NoConn]
    /\ attempt' = [attempt EXCEPT ![f] = @ + 1]
    /\ fpc' = [fpc EXCEPT ![f] = "acquire"]

\* a stale tunnel: stats.PoolStale.Add(1); tunnel.Close(); continue
Stale(f) ==
    /\ stats' = Inc(stats, "PoolStale")
    /\ ftun' = [ftun EXCEPT ![f] = NoConn]
    /\ attempt' = [attempt EXCEPT ![f] = @ + 1]
    /\ fpc' = [fpc EXCEPT ![f] = "acquire"]

\* tunnel.Write(initialData) succeeds
AcqWriteOk(f) ==
    /\ fpc[f] = "vwrite"
    /\ conn' = Bump(conn, Tun(f), "wok")
    /\ fpc' = [fpc EXCEPT ![f] = "vread"]
    /\ UNCHANGED <<auxVars, poolAll, nfail, stats, getVars, runVars, attempt, ftun, fres,
                   localClosed, relayVars>>

\* tunnel.Write(initialData) fails (TCP-dead, or not written within 5 s)
AcqWriteErr(f) ==
    /\ fpc[f] = "vwrite"
    /\ conn' = Close(Bump(conn, Tun(f), "werr"), Tun(f))
    /\ Stale(f)
    /\ UNCHANGED <<auxVars, poolAll, nfail, getVars, runVars, fres, localClosed, relayVars>>

\* what tunnel.Read(respBuf) can return: n bytes, with or without an error
ReadCounts == {0, 1}

\* mutant: only an error makes the tunnel stale, an empty read is accepted
StaleRead_ErrOnly(n, err) == err

\* `err != nil || n == 0`: the verify read found the tunnel stale
StaleRead(n, err) == err \/ n = 0

\* the verify read is recorded on the tunnel: a read that returned data
\* without an error, or one that did not
VerifyRead(c, id, n, err) ==
    Bump(ReadIssued(c, id), id, IF n > 0 /\ ~err THEN "rok" ELSE "rerr")

\* tunnel.Read(respBuf) returns and the tunnel is not stale: return the
\* tunnel and respBuf[:n]; the handler registers `defer tunnel.Close()`
AcqReadOk(f) ==
    /\ fpc[f] = "vread"
    /\ \E n \in ReadCounts, err \in BOOLEAN :
         /\ ~StaleRead(n, err)
         /\ conn' = VerifyRead(conn, Tun(f), n, err)
    /\ fpc' = [fpc EXCEPT ![f] = "forward"]
    /\ UNCHANGED <<auxVars, poolAll, nfail, stats, getVars, runVars, attempt, ftun, fres,
                   localClosed, relayVars>>

\* tunnel.Read fails or returns nothing (app-dead, or no response within 5 s)
AcqReadErr(f) ==
    /\ fpc[f] = "vread"
    /\ \E n \in ReadCounts, err \in BOOLEAN :
         /\ StaleRead(n, err)
         /\ conn' = Close(VerifyRead(conn, Tun(f), n, err), Tun(f))
    /\ Stale(f)
    /\ UNCHANGED <<auxVars, poolAll, nfail, getVars, runVars, fres, localClosed, relayVars>>

\* ------------------------------------------- forward the first response
\* local.Write(firstResponse) succeeds: go on to relay
FlowForwardOk(f) ==
    /\ fpc[f] = "forward"
    /\ fpc' = [fpc EXCEPT ![f] = "relay"]
    /\ UNCHANGED <<auxVars, poolAll, conn, nfail, stats, getVars, runVars, attempt, ftun, fres,
                   localClosed, relayVars>>

\* local.Write(firstResponse) fails
FlowForwardErr(f) ==
    /\ fpc[f] = "forward"
    /\ FlowFail(f, "fwderr")
    /\ UNCHANGED <<auxVars, poolAll, conn, nfail, getVars, runVars, attempt, ftun,
                   localClosed, relayVars>>

\* the counters after the deferred function of the handler: ConnEnd, which
\* is ActiveConns.Add(-1), and RecordConnLifetime, which counts one lifetime
ConnEndDone(s) ==
    [s EXCEPT !.ActiveConns = @ - 1, !.ConnLifetimeCount = @ + 1]

\* mutant: the handler returns without the deferred tunnel.Close()
FlowExit_TunnelLeft(f) ==
    /\ fpc[f] = "exit"
    /\ localClosed' = [localClosed EXCEPT ![f] = @ + 1]
    /\ stats' = ConnEndDone(stats)
    /\ fpc' = [fpc EXCEPT ![f] = "done"]
    /\ UNCHANGED <<auxVars, poolAll, conn, nfail, getVars, runVars, attempt, ftun, fres, relayVars>>

\* the handler returns; its defers run: tunnel.Close() if a tunnel was
\* acquired, local.Close(), then ConnEnd and RecordConnLifetime; wg.Done
FlowExit(f) ==
    /\ fpc[f] = "exit"
    /\ conn' = IF Tun(f) # NoConn THEN Close(conn, Tun(f)) ELSE conn
    /\ localClosed' = [localClosed EXCEPT ![f] = @ + 1]
    /\ stats' = ConnEndDone(stats)
    /\ fpc' = [fpc EXCEPT ![f] = "done"]
    /\ UNCHANGED <<auxVars, poolAll, nfail, getVars, runVars, attempt, ftun, fres, relayVars>>

\* ------------------------------------------------------------------ relay
\* the flow holds a tunnel and Close has been called on it
TunnelClosed(f) == Tun(f) # NoConn /\ conn[Tun(f)].closed > 0

\* the stream a copy reads from is closed
SrcClosed(f, d) ==
    IF d = "out" THEN localClosed[f] > 0 ELSE TunnelClosed(f)

\* the stream a copy writes to is closed
DstClosed(f, d) ==
    IF d = "out" THEN TunnelClosed(f) ELSE localClosed[f] > 0

\* both copies have returned from copyConn
CopiesFinished(f) == \A d \in {"out", "in"} : cpc[f][d] \in {"close", "end"}

\* relay is entered: connDone and done are made, the watcher and the two
\* copies are spawned, and relay blocks on <-done
RelayStart(f) ==
    /\ fpc[f] = "relay"
    /\ wat' = [wat EXCEPT ![f] = "select"]
    /\ cpc' = [cpc EXCEPT ![f] = [out |-> "read", in |-> "read"]]
    /\ cancelSeen' = [cancelSeen EXCEPT ![f] = rootDone]
    /\ fpc' = [fpc EXCEPT ![f] = "relaywait"]
    /\ UNCHANGED <<auxVars, poolAll, conn, nfail, stats, getVars, runVars, attempt, ftun, fres,
                   localClosed, done, connDone>>

\* mutant: the watcher returns on cancellation without closing anything
WatcherOnCancel_NoClose == "closed"

\* what the watcher does when its select takes <-ctx.Done(): local.Close(),
\* then tunnel.Close()
WatcherOnCancel == "closeLocal"

\* watcher select, case <-ctx.Done()
WatcherFire(f) ==
    /\ wat[f] = "select"
    /\ rootDone
    /\ wat' = [wat EXCEPT ![f] = WatcherOnCancel]
    /\ UNCHANGED <<auxVars, poolAll, conn, nfail, stats, getVars, runVars, flowVars,
                   cpc, done, connDone, cancelSeen>>

\* watcher: local.Close()
WatcherCloseLocal(f) ==
    /\ wat[f] = "closeLocal"
    /\ localClosed' = [localClosed EXCEPT ![f] = @ + 1]
    /\ wat' = [wat EXCEPT ![f] = "closeTunnel"]
    /\ UNCHANGED <<auxVars, poolAll, conn, nfail, stats, getVars, runVars, fpc, attempt, ftun, fres,
                   cpc, done, connDone, cancelSeen>>

\* watcher: tunnel.Close(), and the goroutine ends
WatcherCloseTunnel(f) ==
    /\ wat[f] = "closeTunnel"
    /\ conn' = Close(conn, Tun(f))
    /\ wat' = [wat EXCEPT ![f] = "closed"]
    /\ UNCHANGED <<auxVars, poolAll, nfail, stats, getVars, runVars, flowVars,
                   cpc, done, connDone, cancelSeen>>

\* watcher select, case <-connDone: the goroutine ends
WatcherExit(f) ==
    /\ wat[f] = "select"
    /\ connDone[f]
    /\ wat' = [wat EXCEPT ![f] = "exit"]
    /\ UNCHANGED <<auxVars, poolAll, conn, nfail, stats, getVars, runVars, flowVars,
                   cpc, done, connDone, cancelSeen>>

\* src.Read(buf) returns: nothing and no error ("read": the loop reads
\* again), data without an error ("more"), data with an error ("last"), or
\* an error alone ("close"); on a closed stream only the error
ReadOutcomes(f, d) ==
    IF SrcClosed(f, d) THEN {"close"} ELSE {"read", "more", "last", "close"}

\* copyConn: src.Read(buf) returns; with n > 0 the write comes next, with
\* an error alone copyConn returns
CopyRead(f, d) ==
    /\ cpc[f][d] = "read"
    /\ \E o \in ReadOutcomes(f, d) : cpc' = [cpc EXCEPT ![f][d] = o]
    /\ conn' = IF d = "in"
               THEN [ReadIssued(conn, Tun(f)) EXCEPT ![Tun(f)].relayRead = TRUE]
               ELSE conn
    /\ UNCHANGED <<auxVars, poolAll, nfail, stats, getVars, runVars, flowVars,
                   wat, done, connDone, cancelSeen>>

\* dst.Write(buf[:n]) returns: no error ("ok") or an error; on a closed
\* stream only the error
WriteOutcomes(f, d) ==
    IF DstClosed(f, d) THEN {"err"} ELSE {"ok", "err"}

\* copyConn: dst.Write returns; copyConn returns on a write error or when
\* the read had an error, else it reads again
CopyWrite(f, d) ==
    /\ cpc[f][d] \in {"more", "last"}
    /\ \E o \in WriteOutcomes(f, d) :
         cpc' = [cpc EXCEPT ![f][d] =
                   IF o = "ok" /\ cpc[f][d] = "more" THEN "read" ELSE "close"]
    /\ UNCHANGED <<auxVars, poolAll, conn, nfail, stats, getVars, runVars, flowVars,
                   wat, done, connDone, cancelSeen>>

\* the same step of copyConn under SpecFlowRec, which also keeps the history
\* of the write errors
CopyWriteRec(f, d) ==
    /\ cpc[f][d] \in {"more", "last"}
    /\ \E o \in WriteOutcomes(f, d) :
         /\ cpc' = [cpc EXCEPT ![f][d] =
                      IF o = "ok" /\ cpc[f][d] = "more" THEN "read" ELSE "close"]
         /\ relayErr' = [relayErr EXCEPT ![f] = @ \/ o = "err"]
    /\ UNCHANGED <<dataVars, obsVars, poolAll, conn, nfail, stats, getVars, runVars, flowVars,
                   wat, done, connDone, cancelSeen>>

\* mutant: the copy signals done without closing its destination
CopyClose_NoClose(f, d) ==
    /\ cpc[f][d] = "close"
    /\ done' = [done EXCEPT ![f] = @ + 1]
    /\ cpc' = [cpc EXCEPT ![f][d] = "end"]
    /\ UNCHANGED <<auxVars, poolAll, conn, nfail, stats, getVars, runVars, flowVars,
                   wat, connDone, cancelSeen>>

\* copyConn has returned: close the destination, then done <- struct{}{}
CopyClose(f, d) ==
    /\ cpc[f][d] = "close"
    /\ IF d = "out"
         THEN conn' = Close(conn, Tun(f)) /\ UNCHANGED localClosed
         ELSE localClosed' = [localClosed EXCEPT ![f] = @ + 1] /\ UNCHANGED conn
    /\ done' = [done EXCEPT ![f] = @ + 1]
    /\ cpc' = [cpc EXCEPT ![f][d] = "end"]
    /\ UNCHANGED <<auxVars, poolAll, nfail, stats, getVars, runVars, fpc, attempt, ftun, fres,
                   wat, connDone, cancelSeen>>

\* mutant: relay returns without the deferred close(connDone)
RelayReturn_NoConnDone(f) ==
    /\ fpc[f] = "relaywait"
    /\ done[f] = Cardinality({"out", "in"})
    /\ fres' = [fres EXCEPT ![f] = "relayed"]
    /\ fpc' = [fpc EXCEPT ![f] = "exit"]
    /\ UNCHANGED <<auxVars, poolAll, conn, nfail, stats, getVars, runVars, attempt, ftun,
                   localClosed, wat, cpc, done, connDone, cancelSeen>>

\* both <-done have been received: relay returns, the deferred
\* close(connDone) runs, and the handler logs the summary line
RelayReturn(f) ==
    /\ fpc[f] = "relaywait"
    /\ done[f] = Cardinality({"out", "in"})
    /\ connDone' = [connDone EXCEPT ![f] = TRUE]
    /\ fres' = [fres EXCEPT ![f] = "relayed"]
    /\ fpc' = [fpc EXCEPT ![f] = "exit"]
    /\ UNCHANGED <<auxVars, poolAll, conn, nfail, stats, getVars, runVars, attempt, ftun,
                   localClosed, wat, cpc, done, cancelSeen>>

\* -------------------------------------------------------------------- Run
\* SIGINT or SIGTERM arrives; the signal goroutine calls cancel() and then
\* listener.Close()
Signal ==
    /\ ~rootDone
    /\ rootDone' = TRUE
    /\ listenerClosed' = TRUE
    /\ cancelSeen' = [f \in Flows |->
                        cancelSeen[f] \/ (fpc[f] = "relaywait" /\ ~CopiesFinished(f))]
    /\ UNCHANGED <<auxVars, poolAll, conn, nfail, stats, getVars, rpc, flowVars,
                   wat, cpc, done, connDone>>

\* Accept fails on the closed listener and ctx is done: leave the loop
AcceptClosed ==
    /\ rpc = "accept"
    /\ listenerClosed
    /\ rpc' = "wait"
    /\ UNCHANGED <<auxVars, poolAll, conn, nfail, stats, getVars, rootDone, listenerClosed,
                   flowVars, relayVars>>

\* mutant: Run does not wait for the handlers
HandlersDone_NoWait == TRUE

\* every spawned handler has returned
HandlersDone == \A f \in Flows : fpc[f] \in {"idle", "done"}

\* wg.Wait() returns and c.pool.Stop() is entered
RunStop ==
    /\ rpc = "wait"
    /\ HandlersDone
    /\ StopStore
    /\ rpc' = "stop"
    /\ UNCHANGED <<auxVars, rootDone, listenerClosed, flowVars, relayVars>>

\* c.pool.Stop() has returned: print the snapshot, return nil
RunReturn ==
    /\ rpc = "stop"
    /\ spc = "returned"
    /\ rpc' = "done"
    /\ UNCHANGED <<auxVars, poolAll, conn, nfail, stats, getVars, rootDone, listenerClosed,
                   flowVars, relayVars>>

\* ------------------------------------------------------------------ clock
\* the pool holds the connection: in a worker's hand or in the channel
InPool(id) ==
    \/ \E w \in Workers : whold[w] = id
    \/ \E i \in 1..Len(connections) : connections[i] = id

UpTo(n, max) == IF n < max THEN n + 1 ELSE n

\* a worker can take a step of its own: the shutdown check, or a select one
\* of whose cases is ready
WorkerReady(w) ==
    \/ wpc[w] = "check"
    \/ wpc[w] = "backoff" /\ (Fired(wtimer[w], Backoff) \/ ctxDone)
    \/ wpc[w] = "send" /\ (CanSend(connections) \/ Fired(conn[whold[w]].age, TTL) \/ ctxDone)

\* Stop can take a step of its own
StopReady ==
    \/ spc \in {"cancel", "drain"}
    \/ spc = "wait" /\ (WorkersDone \/ GraceExpired)

\* the handler of flow f, its watcher or one of its copies can take a step
\* that waits for nothing
FlowReady(f) ==
    \/ fpc[f] \in {"start", "acquire", "relay", "exit"}
    \/ fpc[f] = "getting" /\ gpc[f] = "ret"
    \/ fpc[f] = "relaywait" /\ done[f] = Cardinality({"out", "in"})
    \/ wat[f] \in {"closeLocal", "closeTunnel"}
    \/ wat[f] = "select" /\ (rootDone \/ connDone[f])
    \/ \E d \in {"out", "in"} : cpc[f][d] = "close"

\* Run can take a step of its own
RunReady ==
    \/ rpc = "accept" /\ listenerClosed
    \/ rpc = "wait" /\ HandlersDone /\ spc = "idle"
    \/ rpc = "stop" /\ spc = "returned"

\* some goroutine can take a step that does not wait for the environment;
\* the select of Get has a default, so a polling Get always can
Urgent ==
    \/ \E w \in Workers : WorkerReady(w)
    \/ \E c \in Callers : gpc[c] = "poll"
    \/ StopReady
    \/ \E f \in Flows : FlowReady(f)
    \/ RunReady

\* 5 s pass while every goroutine waits
Tick ==
    /\ ~Urgent
    /\ conn' = [id \in Ids |->
                  IF InPool(id) THEN [conn[id] EXCEPT !.age = UpTo(@, TTL + 1)]
                  ELSE conn[id]]
    /\ wtimer' = [w \in AllWorkers |->
                  IF wpc[w] = "backoff" THEN UpTo(wtimer[w], Backoff) ELSE wtimer[w]]
    /\ stimer' = IF spc = "wait" THEN UpTo(stimer, Grace) ELSE stimer
    /\ UNCHANGED <<auxVars, poolVars, nfail, stats, wpc, whold, getVars, spc, swarned,
                   runVars, flowVars, relayVars>>

\* --------------------------------------------- specification of the pool
Next ==
    \/ Tick
    \/ \E w \in AllWorkers : WorkerStep(w)
    \/ \E c \in Consumers : ConsumerGet(c) \/ CtxCancel(c) \/ GetStep(c)
    \/ StopCall
    \/ StopStep

Spec == Init /\ [][Next]_vars

\* -------------------------------------------- specification of Client.Run
\* NewClient and the start of Run: a pool of one worker, the listener open
InitFlow == InitCommon(1, FlowDials)

\* a step of the handler of flow f up to the relay
HandlerStep(f) ==
    \/ FlowStart(f)
    \/ FlowInitReadOk(f)
    \/ FlowInitReadErr(f)
    \/ AcqGet(f)
    \/ AcqExhausted(f)
    \/ AcqGetErr(f)
    \/ AcqGetOk(f)
    \/ AcqWriteOk(f)
    \/ AcqWriteErr(f)
    \/ AcqReadOk(f)
    \/ AcqReadErr(f)
    \/ FlowForwardOk(f)
    \/ FlowForwardErr(f)
    \/ FlowExit(f)

\* a step of relay, its watcher or one of its copies
RelayStep(f) ==
    \/ RelayStart(f)
    \/ WatcherFire(f)
    \/ WatcherCloseLocal(f)
    \/ WatcherCloseTunnel(f)
    \/ WatcherExit(f)
    \/ \E d \in {"out", "in"} : CopyRead(f, d) \/ CopyWrite(f, d) \/ CopyClose(f, d)
    \/ RelayReturn(f)

RunStep ==
    \/ Signal
    \/ AcceptClosed
    \/ RunStop
    \/ RunReturn

NextFlow ==
    \/ Tick
    \/ \E w \in AllWorkers : WorkerStep(w)
    \/ \E f \in Flows : Accept(f) \/ HandlerStep(f) \/ GetStep(f) \/ RelayStep(f)
    \/ RunStep
    \/ StopStep

SpecFlow == InitFlow /\ [][NextFlow]_vars

\* Client.Run with the history of the relay's write errors kept in relayErr
RelayStepRec(f) ==
    \/ RelayStart(f)
    \/ WatcherFire(f)
    \/ WatcherCloseLocal(f)
    \/ WatcherCloseTunnel(f)
    \/ WatcherExit(f)
    \/ \E d \in {"out", "in"} : CopyRead(f, d) \/ CopyWriteRec(f, d) \/ CopyClose(f, d)
    \/ RelayReturn(f)

NextFlowRec ==
    \/ Tick
    \/ \E w \in AllWorkers : WorkerStep(w)
    \/ \E f \in Flows : Accept(f) \/ HandlerStep(f) \/ GetStep(f) \/ RelayStepRec(f)
    \/ RunStep
    \/ StopStep

SpecFlowRec == InitFlow /\ [][NextFlowRec]_vars

\* What the Go scheduler and the network stack guarantee about relay: a
\* runnable goroutine runs, and a Read or Write on a stream that has been
\* closed returns.  Nothing is assumed of the peers, of the factory, or of
\* reads and writes on open streams.
RelayFairness ==
    \A f \in Flows :
        /\ WF_vars(WatcherFire(f))
        /\ WF_vars(WatcherCloseLocal(f))
        /\ WF_vars(WatcherCloseTunnel(f))
        /\ WF_vars(RelayReturn(f))
        /\ \A d \in {"out", "in"} :
             /\ WF_vars(SrcClosed(f, d) /\ CopyRead(f, d))
             /\ WF_vars(DstClosed(f, d) /\ CopyWrite(f, d))
             /\ WF_vars(CopyClose(f, d))

FairSpecFlow == SpecFlow /\ RelayFairness


\* What the relay's two copies are guaranteed: a runnable goroutine runs, a
\* Read on a closed stream returns, and a Write returns on an open stream
\* as well, since copyConn sets a write deadline before every Write
\* (dst.SetWriteDeadline(now + DefaultWriteTimeout)).  A Read on an open
\* stream may go on returning data.
CopyFairness ==
    \A f \in Flows : \A d \in {"out", "in"} :
        /\ WF_vars(SrcClosed(f, d) /\ CopyRead(f, d))
        /\ WF_vars(CopyWrite(f, d))
        /\ WF_vars(CopyClose(f, d))

FairSpecRelay == SpecFlow /\ CopyFairness

\* ------------------------- the pool with a factory that always succeeds
InitWarm == \E n \in PoolSizes : InitCommon(n, WarmDials)

\* the factory never fails and nobody calls Stop
NextWarm ==
    \/ Tick
    \/ \E w \in AllWorkers :
          WorkerCheck(w) \/ WorkerDialOk(w) \/ WorkerSend(w) \/ WorkerDiscard(w)
    \/ \E c \in Consumers :
          \/ ConsumerGet(c)
          \/ CtxCancel(c)
          \/ GetRecv(c)
          \/ GetCtxDone(c)
          \/ GetMiss(c)
          \/ GetDialOk(c)

\* a worker goroutine that can run does run: the shutdown check, a factory
\* call that returns, and the hand-over select when one of its cases is
\* ready (the select takes any ready case)
WorkerFairness ==
    \A w \in AllWorkers :
        /\ WF_vars(WorkerCheck(w))
        /\ WF_vars(WorkerDialOk(w))
        /\ WF_vars(WorkerSend(w) \/ WorkerDiscard(w))

FairSpecWarm == InitWarm /\ [][NextWarm]_vars /\ WorkerFairness

\* ---------------------------- the pool with a factory that always fails
InitCold == \E n \in PoolSizes : InitCommon(n, ColdDials)

\* every factory call returns an error; nothing is ever queued, so the
\* receive cases of Get and of the drain loop of Stop never fire
NextCold ==
    \/ Tick
    \/ \E w \in AllWorkers :
          \/ WorkerCheck(w)
          \/ WorkerDialErr(w)
          \/ WorkerBackoffElapsed(w)
          \/ WorkerBackoffCancelled(w)
    \/ \E c \in Consumers :
          \/ ConsumerGet(c)
          \/ CtxCancel(c)
          \/ GetCtxDone(c)
          \/ GetMiss(c)
          \/ GetDialErr(c)
    \/ StopCall
    \/ StopCancel
    \/ StopWorkersDone
    \/ StopTimeout
    \/ StopDrained

\* every goroutine that can run does run, a factory call returns its error,
\* and time passes when every goroutine waits
ColdFairness ==
    /\ WF_vars(Tick)
    /\ \A w \in AllWorkers :
          /\ WF_vars(WorkerCheck(w))
          /\ WF_vars(WorkerDialErr(w))
          /\ WF_vars(WorkerBackoffElapsed(w) \/ WorkerBackoffCancelled(w))
    /\ \A c \in Consumers : WF_vars(GetCtxDone(c) \/ GetMiss(c) \/ GetDialErr(c))
    /\ WF_vars(StopCancel \/ StopWorkersDone \/ StopTimeout \/ StopDrained)

FairSpecCold == InitCold /\ [][NextCold]_vars /\ ColdFairness

\* ------------------------------------------------- the pool, scheduled
\* Every goroutine that can take a step of its own takes it, and time passes
\* when every goroutine waits.  Nothing is assumed of the factory: a call
\* into it may never return.
PoolFairness ==
    /\ WF_vars(Tick)
    /\ WF_vars(StopStep)
    /\ \A w \in AllWorkers :
          /\ WF_vars(WorkerCheck(w))
          /\ WF_vars(WorkerBackoffElapsed(w) \/ WorkerBackoffCancelled(w))
          /\ WF_vars(WorkerSend(w) \/ WorkerDiscard(w) \/ WorkerSendCancelled(w))
    /\ \A c \in Consumers : WF_vars(GetRecv(c) \/ GetCtxDone(c) \/ GetMiss(c))

FairSpecStop == Spec /\ PoolFairness

\* ------------------------------------ the pool, the hit path in two steps
NextAge ==
    \/ Tick
    \/ \E w \in AllWorkers : WorkerStep(w)
    \/ \E c \in Consumers :
          \/ ConsumerGet(c)
          \/ CtxCancel(c)
          \/ GetHit(c)
          \/ GetRecordAge(c)
          \/ GetExpired(c)
          \/ GetCtxDone(c)
          \/ GetMiss(c)
          \/ GetDialOk(c)
          \/ GetDialErr(c)
    \/ StopCall
    \/ StopStep

SpecAge == Init /\ [][NextAge]_vars

\* ------------------------------ the pool with more factory calls explored
InitWide == \E n \in PoolSizes : InitCommon(n, WideDials)

SpecWide == InitWide /\ [][Next]_vars

\* --------------------------------------------- the watcher, scheduled
\* the watcher goroutine runs when it can: its select takes a ready case,
\* and the two Close calls return
WatcherFairness ==
    \A f \in Flows :
        /\ WF_vars(WatcherFire(f) \/ WatcherExit(f))
        /\ WF_vars(WatcherCloseLocal(f))
        /\ WF_vars(WatcherCloseTunnel(f))

FairSpecWatcher == SpecFlow /\ WatcherFairness
\* ------------------------------------------------- the bytes of one flow
\* A stream of n bytes, each byte numbered by its position: the code never
\* looks at a byte, so reordering, duplication and omission all show.
Iota(n) == [i \in 1..n |-> i]

\* s is a prefix of t
IsPrefix(s, t) == Len(s) <= Len(t) /\ SubSeq(t, 1, Len(s)) = s

\* the rest of a stream after its first k bytes
Drop(s, k) == SubSeq(s, k + 1, Len(s))

\* mutant: the slice starts one byte late
Slice_FromSecond(buf, n) == SubSeq(buf, 2, n)

\* buf[:n]
Slice(buf, n) == SubSeq(buf, 1, n)

\* how many bytes a Read into a buffer of MaxChunk bytes can return from a
\* stream: any positive number the stream and the buffer allow
ChunkSizes(s) == 1..(IF Len(s) < MaxChunk THEN Len(s) ELSE MaxChunk)

\* a flow is accepted: the local client will send n bytes; the upstream
\* echoes, or delivers m bytes of its own
InitData ==
    /\ InitCore(1, 0)
    /\ ObsIdle
    /\ HistIdle
    /\ echo \in BOOLEAN
    /\ streamLen \in 1..MaxData
    /\ localSend = Iota(streamLen)
    /\ \E m \in 0..MaxData : tunSend = IF echo THEN << >> ELSE Iota(m)
    /\ localRecv = << >>
    /\ tunRecv = << >>
    /\ tunRead = << >>
    /\ closedD = [local |-> FALSE, tunnel |-> FALSE]
    /\ dpc = "initread"
    /\ initialData = << >>
    /\ firstResponse = << >>
    /\ cp = [d \in Dirs |-> NoCopy]
    /\ writeFailed = [local |-> FALSE, tunnel |-> FALSE]

\* what the actions of SpecData leave alone
dataFrame == <<coreVars, obsVars, histVars, echo, streamLen>>

\* local.Read(initialBuf) returns n > 0 bytes and no error:
\* initialData := initialBuf[:n]
DataInitRead ==
    /\ dpc = "initread"
    /\ \E n \in ChunkSizes(localSend) :
         /\ initialData' = Slice(localSend, n)
         /\ localSend' = Drop(localSend, n)
    /\ dpc' = "vwrite"
    /\ UNCHANGED <<dataFrame, stats, localRecv, tunSend, tunRecv, tunRead, closedD,
                   firstResponse, cp, writeFailed>>

\* local.Read fails or returns nothing: the handler returns
DataInitReadErr ==
    /\ dpc = "initread"
    /\ dpc' = "exit"
    /\ UNCHANGED <<dataFrame, stats, localSend, localRecv, tunSend, tunRecv, tunRead,
                   closedD, initialData, firstResponse, cp, writeFailed>>

\* the bytes the upstream will deliver once `bytes` have reached it
Upstream(sending, bytes) == IF echo THEN sending \o bytes ELSE sending

\* tunnel.Write(initialData) succeeds
DataVerifyWrite ==
    /\ dpc = "vwrite"
    /\ tunRecv' = tunRecv \o initialData
    /\ tunSend' = Upstream(tunSend, initialData)
    /\ dpc' = "vread"
    /\ UNCHANGED <<dataFrame, stats, localSend, localRecv, tunRead, closedD,
                   initialData, firstResponse, cp, writeFailed>>

\* tunnel.Write(initialData) fails after `written` bytes: the tunnel is
\* stale and closed (the retry on another tunnel is not followed here)
DataVerifyWriteErr ==
    /\ dpc = "vwrite"
    /\ \E written \in 0..(Len(initialData) - 1) :
         /\ tunRecv' = tunRecv \o Slice(initialData, written)
         /\ tunSend' = Upstream(tunSend, Slice(initialData, written))
    /\ writeFailed' = [writeFailed EXCEPT !.tunnel = TRUE]
    /\ closedD' = [closedD EXCEPT !.tunnel = TRUE]
    /\ dpc' = "exit"
    /\ UNCHANGED <<dataFrame, stats, localSend, localRecv, tunRead,
                   initialData, firstResponse, cp>>

\* tunnel.Read(respBuf) returns n > 0 bytes and no error: acquireTunnel
\* returns respBuf[:n]
DataVerifyRead ==
    /\ dpc = "vread"
    /\ \E n \in ChunkSizes(tunSend) :
         /\ firstResponse' = Slice(tunSend, n)
         /\ tunRead' = tunRead \o SubSeq(tunSend, 1, n)
         /\ tunSend' = Drop(tunSend, n)
    /\ dpc' = "forward"
    /\ UNCHANGED <<dataFrame, stats, localSend, localRecv, tunRecv, closedD,
                   initialData, cp, writeFailed>>

\* tunnel.Read fails or returns nothing: the tunnel is stale and closed
DataVerifyReadErr ==
    /\ dpc = "vread"
    /\ closedD' = [closedD EXCEPT !.tunnel = TRUE]
    /\ dpc' = "exit"
    /\ UNCHANGED <<dataFrame, stats, localSend, localRecv, tunSend, tunRecv, tunRead,
                   initialData, firstResponse, cp, writeFailed>>

\* mutant: the first response is not forwarded
ForwardFirst_Dropped(received, resp) == received

\* the local stream after local.Write(firstResponse) has succeeded
ForwardFirst(received, resp) == received \o resp

\* local.Write(firstResponse) succeeds: relay is entered, the two copies
\* are spawned
DataForward ==
    /\ dpc = "forward"
    /\ localRecv' = ForwardFirst(localRecv, firstResponse)
    /\ cp' = [d \in Dirs |-> [NoCopy EXCEPT !.pc = "read"]]
    /\ dpc' = "relay"
    /\ UNCHANGED <<dataFrame, stats, localSend, tunSend, tunRecv, tunRead, closedD,
                   initialData, firstResponse, writeFailed>>

\* local.Write(firstResponse) fails after `written` bytes: the handler returns
DataForwardErr ==
    /\ dpc = "forward"
    /\ \E written \in 0..(Len(firstResponse) - 1) :
         localRecv' = localRecv \o Slice(firstResponse, written)
    /\ writeFailed' = [writeFailed EXCEPT !.local = TRUE]
    /\ dpc' = "exit"
    /\ UNCHANGED <<dataFrame, stats, localSend, tunSend, tunRecv, tunRead, closedD,
                   initialData, firstResponse, cp>>

\* the stream a copy reads from and the one it writes to
Src(d) == IF d = "out" THEN "local" ELSE "tunnel"
Dst(d) == IF d = "out" THEN "tunnel" ELSE "local"

\* the bytes the source of copy d has still to deliver
Pending(d) == IF d = "out" THEN localSend ELSE tunSend

\* mutant: the read error is looked at before the data
AfterRead_ErrFirst(n, err) ==
    IF err THEN "ret" ELSE IF n > 0 THEN "write" ELSE "read"

\* copyConn after src.Read: `if n > 0 { write }`, then `if err != nil { return }`
AfterRead(n, err) ==
    IF n > 0 THEN "write" ELSE IF err THEN "ret" ELSE "read"

\* copyConn: n, err := src.Read(buf).  A closed source gives the error
\* alone; an open one gives up to MaxChunk bytes, with or without an error,
\* or nothing (with an error: the peer closed, the deadline passed)
DataCopyRead(d) ==
    /\ cp[d].pc = "read"
    /\ \E n \in IF closedD[Src(d)] THEN {0} ELSE {0} \cup ChunkSizes(Pending(d)),
          err \in IF closedD[Src(d)] THEN {TRUE} ELSE BOOLEAN :
         /\ cp' = [cp EXCEPT ![d].buf = SubSeq(Pending(d), 1, n),
                             ![d].err = err,
                             ![d].pc = AfterRead(n, err)]
         /\ IF d = "out"
              THEN /\ localSend' = Drop(localSend, n)
                   /\ UNCHANGED <<tunSend, tunRead>>
              ELSE /\ tunSend' = Drop(tunSend, n)
                   /\ tunRead' = tunRead \o SubSeq(tunSend, 1, n)
                   /\ UNCHANGED localSend
    /\ UNCHANGED <<dataFrame, stats, localRecv, tunRecv, closedD, dpc,
                   initialData, firstResponse, writeFailed>>

\* mutant: every write is counted as one byte
AddBytes_One(s, n) == [s EXCEPT !.TotalBytes = @ + 1]

\* Stats.AddBytes
AddBytes(s, n) == [s EXCEPT !.TotalBytes = @ + n]

\* copyConn: written, werr := dst.Write(buf[:n]) with its accounting.  A
\* Write returns all n bytes and no error, or fewer with an error (none on
\* a closed destination); `written` bytes are added to total and to
\* TotalBytes; copyConn returns on werr, then on the read error
DataCopyWrite(d) ==
    /\ cp[d].pc = "write"
    /\ LET n == Len(cp[d].buf)
       IN \E written \in IF closedD[Dst(d)] THEN {0} ELSE 0..n :
            LET werr == written < n
                bytes == Slice(cp[d].buf, written)
            IN /\ IF d = "out"
                    THEN /\ tunRecv' = tunRecv \o bytes
                         /\ tunSend' = Upstream(tunSend, bytes)
                         /\ UNCHANGED localRecv
                    ELSE /\ localRecv' = localRecv \o bytes
                         /\ UNCHANGED <<tunRecv, tunSend>>
               /\ stats' = IF written > 0 THEN AddBytes(stats, written) ELSE stats
               /\ cp' = [cp EXCEPT ![d].total = @ + written,
                                   ![d].buf = << >>,
                                   ![d].pc = IF werr \/ cp[d].err THEN "ret" ELSE "read"]
               /\ writeFailed' = [writeFailed EXCEPT ![Dst(d)] = @ \/ werr]
    /\ UNCHANGED <<dataFrame, localSend, tunRead, closedD, dpc,
                   initialData, firstResponse>>

\* copyConn has returned: the goroutine closes the destination and signals done
DataCopyClose(d) ==
    /\ cp[d].pc = "ret"
    /\ closedD' = [closedD EXCEPT ![Dst(d)] = TRUE]
    /\ cp' = [cp EXCEPT ![d].pc = "end"]
    /\ UNCHANGED <<dataFrame, stats, localSend, localRecv, tunSend, tunRecv, tunRead, dpc,
                   initialData, firstResponse, writeFailed>>

\* ctx is cancelled during the relay: the watcher closes both streams
DataWatcherClose ==
    /\ dpc = "relay"
    /\ ~(closedD.local /\ closedD.tunnel)
    /\ closedD' = [local |-> TRUE, tunnel |-> TRUE]
    /\ UNCHANGED <<dataFrame, stats, localSend, localRecv, tunSend, tunRecv, tunRead, dpc,
                   initialData, firstResponse, cp, writeFailed>>

\* both copies have signalled done: relay returns (bytesOut, bytesIn), the
\* totals of the two copies
DataRelayReturn ==
    /\ dpc = "relay"
    /\ \A d \in Dirs : cp[d].pc = "end"
    /\ dpc' = "exit"
    /\ UNCHANGED <<dataFrame, stats, localSend, localRecv, tunSend, tunRecv, tunRead,
                   closedD, initialData, firstResponse, cp, writeFailed>>

\* the handler returns: the deferred tunnel.Close() and local.Close() run
DataExit ==
    /\ dpc = "exit"
    /\ closedD' = [local |-> TRUE, tunnel |-> TRUE]
    /\ dpc' = "done"
    /\ UNCHANGED <<dataFrame, stats, localSend, localRecv, tunSend, tunRecv, tunRead,
                   initialData, firstResponse, cp, writeFailed>>

NextData ==
    \/ DataInitRead
    \/ DataInitReadErr
    \/ DataVerifyWrite
    \/ DataVerifyWriteErr
    \/ DataVerifyRead
    \/ DataVerifyReadErr
    \/ DataForward
    \/ DataForwardErr
    \/ \E d \in Dirs : DataCopyRead(d) \/ DataCopyWrite(d) \/ DataCopyClose(d)
    \/ DataWatcherClose
    \/ DataRelayReturn
    \/ DataExit

SpecData == InitData /\ [][NextData]_vars

\* ---------------------------------------- the counters under concurrency
\* The atomic operations of ConnStart, ConnEnd, RecordConnectTime and
\* Snapshot, one step each, interleaved; the three histograms share their
\* code, connect_time stands for all of them.
InitObs == InitCommon(1, 0)

\* what the actions of SpecStats leave alone
obsFrame == <<coreVars, dataVars, histVars>>

\* ConnStart: s.TotalConns.Add(1)
ConnStartTotal(h) ==
    /\ cs[h].pc = "idle"
    /\ stats' = Inc(stats, "TotalConns")
    /\ cs' = [cs EXCEPT ![h].pc = "add"]
    /\ UNCHANGED <<obsFrame, rec, snapPc, snap>>

\* ConnStart: active := s.ActiveConns.Add(1)
ConnStartActive(h) ==
    /\ cs[h].pc = "add"
    /\ stats' = Inc(stats, "ActiveConns")
    /\ cs' = [cs EXCEPT ![h].active = stats.ActiveConns + 1, ![h].pc = "load"]
    /\ UNCHANGED <<obsFrame, rec, snapPc, snap>>

\* atomicMax: old := a.Load(); `v <= old` returns
ConnStartPeakLoad(h) ==
    /\ cs[h].pc = "load"
    /\ cs' = [cs EXCEPT ![h].old = stats.peakActiveConns,
                        ![h].pc = IF cs[h].active <= stats.peakActiveConns
                                    THEN "run" ELSE "cas"]
    /\ UNCHANGED <<obsFrame, stats, rec, snapPc, snap>>

\* atomicMax: a.CompareAndSwap(old, v) stores and returns, or fails and the
\* loop loads again
ConnStartPeakCas(h) ==
    /\ cs[h].pc = "cas"
    /\ IF stats.peakActiveConns = cs[h].old
         THEN /\ stats' = [stats EXCEPT !.peakActiveConns = cs[h].active]
              /\ cs' = [cs EXCEPT ![h].pc = "run"]
         ELSE /\ cs' = [cs EXCEPT ![h].pc = "load"]
              /\ UNCHANGED stats
    /\ UNCHANGED <<obsFrame, rec, snapPc, snap>>

\* ConnEnd: s.ActiveConns.Add(-1)
ConnEnd(h) ==
    /\ cs[h].pc = "run"
    /\ stats' = [stats EXCEPT !.ActiveConns = @ - 1]
    /\ cs' = [cs EXCEPT ![h].pc = "done"]
    /\ UNCHANGED <<obsFrame, rec, snapPc, snap>>

\* the durations a record operation is called with
Durations == 1..MaxNs

\* RecordConnectTime(d): s.ConnectTimeTotal.Add(ns)
RecordTotal(r) ==
    /\ rec[r].pc = "idle"
    /\ \E ns \in Durations :
         /\ stats' = [stats EXCEPT !.ConnectTimeTotal = @ + ns]
         /\ rec' = [rec EXCEPT ![r].ns = ns, ![r].pc = "count"]
    /\ UNCHANGED <<obsFrame, cs, snapPc, snap>>

\* RecordConnectTime: s.ConnectTimeCount.Add(1)
RecordCount(r) ==
    /\ rec[r].pc = "count"
    /\ stats' = Inc(stats, "ConnectTimeCount")
    /\ rec' = [rec EXCEPT ![r].pc = "minload"]
    /\ UNCHANGED <<obsFrame, cs, snapPc, snap>>

\* atomicMin: old := a.Load(); `v >= old` returns
RecordMinLoad(r) ==
    /\ rec[r].pc = "minload"
    /\ rec' = [rec EXCEPT ![r].old = stats.ConnectTimeMin,
                          ![r].pc = IF rec[r].ns >= stats.ConnectTimeMin
                                      THEN "maxload" ELSE "mincas"]
    /\ UNCHANGED <<obsFrame, stats, cs, snapPc, snap>>

\* atomicMin: a.CompareAndSwap(old, v)
RecordMinCas(r) ==
    /\ rec[r].pc = "mincas"
    /\ IF stats.ConnectTimeMin = rec[r].old
         THEN /\ stats' = [stats EXCEPT !.ConnectTimeMin = rec[r].ns]
              /\ rec' = [rec EXCEPT ![r].pc = "maxload"]
         ELSE /\ rec' = [rec EXCEPT ![r].pc = "minload"]
              /\ UNCHANGED stats
    /\ UNCHANGED <<obsFrame, cs, snapPc, snap>>

\* atomicMax: old := a.Load(); `v <= old` returns
RecordMaxLoad(r) ==
    /\ rec[r].pc = "maxload"
    /\ rec' = [rec EXCEPT ![r].old = stats.ConnectTimeMax,
                          ![r].pc = IF rec[r].ns <= stats.ConnectTimeMax
                                      THEN "done" ELSE "maxcas"]
    /\ UNCHANGED <<obsFrame, stats, cs, snapPc, snap>>

\* mutant: a plain Store in place of the CompareAndSwap
RecordMaxCas_Store(r) ==
    /\ rec[r].pc = "maxcas"
    /\ stats' = [stats EXCEPT !.ConnectTimeMax = rec[r].ns]
    /\ rec' = [rec EXCEPT ![r].pc = "done"]
    /\ UNCHANGED <<obsFrame, cs, snapPc, snap>>

\* atomicMax: a.CompareAndSwap(old, v)
RecordMaxCas(r) ==
    /\ rec[r].pc = "maxcas"
    /\ IF stats.ConnectTimeMax = rec[r].old
         THEN /\ stats' = [stats EXCEPT !.ConnectTimeMax = rec[r].ns]
              /\ rec' = [rec EXCEPT ![r].pc = "done"]
         ELSE /\ rec' = [rec EXCEPT ![r].pc = "maxload"]
              /\ UNCHANGED stats
    /\ UNCHANGED <<obsFrame, cs, snapPc, snap>>

\* Snapshot is called: the snapshot starts zeroed
SnapshotCall ==
    /\ snapPc \in {"idle", "done"}
    /\ snap' = NoSnap
    /\ snapPc' = "active"
    /\ UNCHANGED <<obsFrame, stats, cs, rec>>

\* ActiveConns: s.ActiveConns.Load()
SnapshotActive ==
    /\ snapPc = "active"
    /\ snap' = [snap EXCEPT !.ActiveConns = stats.ActiveConns]
    /\ snapPc' = "peak"
    /\ UNCHANGED <<obsFrame, stats, cs, rec>>

\* PeakConns: s.peakActiveConns.Load()
SnapshotPeak ==
    /\ snapPc = "peak"
    /\ snap' = [snap EXCEPT !.PeakConns = stats.peakActiveConns]
    /\ snapPc' = "count"
    /\ UNCHANGED <<obsFrame, stats, cs, rec>>

\* if count := s.ConnectTimeCount.Load(); count > 0
SnapshotCount ==
    /\ snapPc = "count"
    /\ snap' = [snap EXCEPT !.count = stats.ConnectTimeCount]
    /\ snapPc' = IF stats.ConnectTimeCount > 0 THEN "avg" ELSE "done"
    /\ UNCHANGED <<obsFrame, stats, cs, rec>>

\* AvgConnectTime = s.ConnectTimeTotal.Load() / int64(count)
SnapshotAvg ==
    /\ snapPc = "avg"
    /\ snap' = [snap EXCEPT !.Avg = stats.ConnectTimeTotal \div snap.count]
    /\ snapPc' = "min"
    /\ UNCHANGED <<obsFrame, stats, cs, rec>>

\* MinConnectTime = s.ConnectTimeMin.Load()
SnapshotMin ==
    /\ snapPc = "min"
    /\ snap' = [snap EXCEPT !.Min = stats.ConnectTimeMin]
    /\ snapPc' = "max"
    /\ UNCHANGED <<obsFrame, stats, cs, rec>>

\* MaxConnectTime = s.ConnectTimeMax.Load(); return snap
SnapshotMax ==
    /\ snapPc = "max"
    /\ snap' = [snap EXCEPT !.Max = stats.ConnectTimeMax]
    /\ snapPc' = "done"
    /\ UNCHANGED <<obsFrame, stats, cs, rec>>

NextStats ==
    \/ \E h \in Handlers :
         \/ ConnStartTotal(h)
         \/ ConnStartActive(h)
         \/ ConnStartPeakLoad(h)
         \/ ConnStartPeakCas(h)
         \/ ConnEnd(h)
    \/ \E r \in Recorders :
         \/ RecordTotal(r)
         \/ RecordCount(r)
         \/ RecordMinLoad(r)
         \/ RecordMinCas(r)
         \/ RecordMaxLoad(r)
         \/ RecordMaxCas(r)
    \/ SnapshotCall
    \/ SnapshotActive
    \/ SnapshotPeak
    \/ SnapshotCount
    \/ SnapshotAvg
    \/ SnapshotMin
    \/ SnapshotMax

SpecStats == InitObs /\ [][NextStats]_vars

\* ------------------------------------------------------------------ claims
InQueue(id) == \E i \in 1..Len(connections) : connections[i] = id

\* C1: every connection is enqueued at most once and returned by at most one
\* Get call; no two Get calls hold the same connection; a connection in the
\* ready queue has never been dequeued and is held by no borrower, so a
\* dequeued connection is never in the queue again.
C1_SingleOwner ==
    /\ \A id \in Ids : conn[id].enq <= 1 /\ conn[id].ret <= 1 /\ conn[id].deq <= conn[id].enq
    /\ \A i, j \in 1..Len(connections) : i # j => connections[i] # connections[j]
    /\ \A id \in Ids : InQueue(id) => conn[id].deq = 0 /\ conn[id].ret = 0
    /\ \A c, d \in Callers :
         (c # d /\ gres[c].id # NoConn) => gres[c].id # gres[d].id
    /\ \A c \in Callers : gres[c].id # NoConn => ~InQueue(gres[c].id)

\* two concurrent Get calls have each returned a pooled connection while
\* both were in progress
C1_Witness ==
    \E c, d \in Consumers :
        /\ c # d
        /\ gres[c].id # NoConn /\ gres[d].id # NoConn
        /\ conn[gres[c].id].fromPool /\ conn[gres[d].id].fromPool

\* C2: a connection Get returned with FromPool = true had, when Get looked
\* at it, an age of at most ttl; no connection older than ttl is returned.
C2_BorrowedFresh ==
    \A id \in Ids :
        (conn[id].fromPool \/ (conn[id].origin = "worker" /\ conn[id].ret > 0))
            => conn[id].poolAge <= TTL

\* Get has closed an expired connection and returned one whose age is
\* exactly ttl
C2_Witness ==
    /\ stats.PoolExpired > 0
    /\ \E id \in Ids : conn[id].fromPool /\ conn[id].poolAge = TTL

\* C3: the ready queue never holds more than `size` connections.
C3_QueueWithinCapacity == Len(connections) <= size

\* the queue is full while a worker waits with one more connection in hand
C3_Witness ==
    /\ Len(connections) = size
    /\ \E w \in Workers : wpc[w] = "send" /\ whold[w] # NoConn

\* C7: a Get call made after Stop has returned fails: it returns no connection.
C7_GetAfterStopFails ==
    \A c \in Callers : (gpc[c] = "ret" /\ gafter[c]) => gres[c].id = NoConn

\* C8: once Stop has returned the ready queue is empty (no worker enqueues
\* after the drain, also when the grace expired).
C8_EmptyAfterStop == spc = "returned" => Len(connections) = 0

\* C9: once Stop has returned and every worker has finished, every connection
\* a worker's factory call returned was handed to a Get caller or closed.
C9_NoLeakAfterStop ==
    (spc = "returned" /\ WorkersDone) =>
        \A id \in Ids :
            conn[id].origin = "worker" => (conn[id].ret > 0 \/ conn[id].closed > 0)


\* C10: if Run's context is cancelled while relay runs and a copy is still
\* going, then both streams get closed, both copies return and relay returns.
C10_CancelEndsRelay ==
    \A f \in Flows :
        cancelSeen[f] ~>
            (/\ fpc[f] \in {"exit", "done"}
             /\ CopiesFinished(f)
             /\ localClosed[f] > 0
             /\ TunnelClosed(f))

\* C10 as stated: once the context is cancelled during a relay, it is the
\* watcher that closes the streams: it never leaves through <-connDone.
C10_WatcherCloses == \A f \in Flows : cancelSeen[f] => wat[f] # "exit"

\* the context was cancelled during the relay, the watcher closed both
\* streams and relay has returned
C10_Witness ==
    \E f \in Flows :
        /\ cancelSeen[f]
        /\ wat[f] = "closed"
        /\ fres[f] = "relayed"
        /\ localClosed[f] > 0 /\ TunnelClosed(f)

\* the acquire of flow f has returned a tunnel
Acquired(f) == fpc[f] \in {"forward", "relay", "relaywait"} /\ Tun(f) # NoConn

\* C4: when acquire has returned a tunnel, that tunnel has had exactly one
\* successful write of the initial bytes, then exactly one successful
\* non-empty read, and no other read or write by the acquirer.
C4_AcquiredVerified ==
    \A f \in Flows :
        Acquired(f) =>
            /\ conn[Tun(f)].wok = 1 /\ conn[Tun(f)].rok = 1
            /\ conn[Tun(f)].werr = 0 /\ conn[Tun(f)].rerr = 0
            /\ conn[Tun(f)].earlyReads = 0
            /\ fpc[f] = "forward" => ~conn[Tun(f)].relayRead

\* acquire has returned a verified pooled tunnel on a retry, after a stale one
C4_Witness ==
    \E f \in Flows :
        /\ fpc[f] = "forward"
        /\ Tun(f) # NoConn
        /\ conn[Tun(f)].fromPool
        /\ attempt[f] > 0

\* the connections Get calls have returned, and those of them found stale
Borrowed == {id \in Ids : conn[id].ret > 0}
StaleSet == {id \in Borrowed : conn[id].werr + conn[id].rerr > 0}

\* C5 (amended): when every pool.Get call of an acquire returns a tunnel and
\* every tunnel is stale (the write fails, or no response is read), acquire
\* makes exactly maxRetries attempts, closes each of the maxRetries tunnels,
\* adds exactly maxRetries to pool_stale and returns the all-stale error;
\* every stale attempt is counted and its tunnel closed exactly once.
C5_AllStale ==
    \A f \in Flows :
        /\ attempt[f] <= maxRetries
        /\ stats.PoolStale = attempt[f]
        /\ Cardinality(StaleSet) = attempt[f]
        /\ \A id \in StaleSet : conn[id].closed = 1 /\ conn[id].werr + conn[id].rerr = 1
        /\ fres[f] = "allstale" =>
             /\ attempt[f] = maxRetries
             /\ Cardinality(Borrowed) = maxRetries
             /\ Borrowed = StaleSet
        /\ (fpc[f] \in {"exit", "done"} /\ fres[f] # "geterr" /\ StaleSet # {}
              /\ Borrowed = StaleSet)
             => fres[f] = "allstale"

\* C5 as stated: whenever every tunnel the pool handed out was stale, the
\* acquire ends with maxRetries attempts and the all-stale error.
C5_AsStated ==
    \A f \in Flows :
        (fpc[f] \in {"exit", "done"} /\ StaleSet # {} /\ Borrowed = StaleSet)
            => (fres[f] = "allstale" /\ attempt[f] = maxRetries
                /\ stats.PoolStale = maxRetries)

\* acquire has returned the all-stale error after tunnels that failed the
\* write and tunnels that gave no response
C5_Witness ==
    \E f \in Flows :
        /\ fres[f] = "allstale"
        /\ \E id \in StaleSet : conn[id].werr = 1
        /\ \E id \in StaleSet : conn[id].rerr = 1

\* C6: no read is issued on a tunnel before a write of the initial bytes has
\* succeeded on it; the pool does no read or write on a connection it
\* holds; outside relay a tunnel is read once at most, by the verify read.
C6_NoReadBeforeWrite ==
    \A id \in Ids :
        /\ conn[id].earlyReads = 0
        /\ (conn[id].rok + conn[id].rerr > 0 \/ conn[id].relayRead) => conn[id].wok > 0
        /\ conn[id].rok + conn[id].rerr <= 1
        /\ conn[id].ret = 0 =>
             /\ conn[id].wok + conn[id].werr + conn[id].rok + conn[id].rerr = 0
             /\ ~conn[id].relayRead

\* the relay has read from a verified tunnel while the pool has closed a
\* connection nobody borrowed
C6_Witness ==
    /\ \E id \in Ids : conn[id].relayRead /\ conn[id].rok = 1
    /\ \E id \in Ids : conn[id].ret = 0 /\ conn[id].enq = 1 /\ conn[id].closed > 0

\* a watcher or a copy of flow f is still running
RelayTasksRunning(f) ==
    \/ wat[f] \in {"select", "closeLocal", "closeTunnel"}
    \/ \E d \in Dirs : cpc[f][d] \notin {"none", "end"}

\* C11: the quiescent state the system reaches after the shutdown signal
\* (Run has returned, every handler, producer, watcher and copy has finished)
\* has active_conns = 0 and ready_count = 0.
C11_QuiescentAfterShutdown ==
    (rpc = "done" /\ WorkersDone /\ HandlersDone
        /\ \A f \in Flows : ~RelayTasksRunning(f))
      => (stats.ActiveConns = 0 /\ Len(connections) = 0)

\* C12: from the moment Run's context is cancelled no worker starts a new
\* factory call.
C12_NoDialAfterCancel ==
    [][rootDone => \A w \in AllWorkers : (wpc'[w] = "dial" => wpc[w] = "dial")]_vars

\* the flow has entered relay: its copies have been spawned
RelayReached == cp["in"].pc # "none"

\* C13: for a flow that has reached relay, the bytes written to the local
\* stream start with the whole first response and continue with the bytes
\* read from the tunnel, in the order they were read; as long as no write
\* on the local stream has failed, only the bytes still in the copy's
\* buffer are missing.
C13_LocalStreamOrdered ==
    RelayReached =>
        /\ IsPrefix(firstResponse, localRecv)
        /\ IsPrefix(localRecv, tunRead)
        /\ (~writeFailed.local => localRecv \o cp["in"].buf = tunRead)

C13_Witness ==
    /\ RelayReached
    /\ cp["in"].pc = "end"
    /\ cp["in"].total >= 2
    /\ Len(localRecv) = Len(firstResponse) + cp["in"].total

\* C14: when the local-to-tunnel copy has ended after reading all of the
\* local client's bytes X and no write on the tunnel has failed, its total
\* is |X| and the tunnel has received the initial payload followed by X,
\* every byte once and in order.
C14_OutboundExact ==
    (cp["out"].pc \in {"ret", "end"} /\ localSend = << >> /\ ~writeFailed.tunnel)
        => /\ cp["out"].total = streamLen - Len(initialData)
           /\ tunRecv = Iota(streamLen)

C14_Witness ==
    /\ cp["out"].pc = "end"
    /\ localSend = << >>
    /\ ~writeFailed.tunnel
    /\ cp["out"].err
    /\ cp["out"].total >= 2

\* acquireTunnel has returned a tunnel of an echoing upstream
EchoAcquired == echo /\ dpc = "forward"

\* C15 (as amended): with an echoing upstream the first response returned
\* by acquireTunnel is a non-empty prefix of the initial payload.
C15_FirstResponsePrefix ==
    EchoAcquired => (Len(firstResponse) > 0 /\ IsPrefix(firstResponse, initialData))

\* C15 (as stated): with an echoing upstream the first response returned
\* by acquireTunnel is the initial payload.
C15_AsStated ==
    EchoAcquired => firstResponse = initialData

C15_Witness ==
    EchoAcquired /\ Len(firstResponse) < Len(initialData)

\* C16: the amount relay has added to TotalBytes is the sum of the totals
\* of its two copies, the values it returns as bytesOut and bytesIn.
C16_TotalBytesIsSum ==
    stats.TotalBytes = cp["out"].total + cp["in"].total

C16_Witness ==
    /\ dpc = "done"
    /\ cp["out"].total > 0
    /\ cp["in"].total > 0
    /\ cp["out"].total + cp["in"].total >= 3

\* the flow is over, the upstream echoed, the client sent more than its
\* initial payload and every byte of the client has gone round
EchoFlowComplete ==
    /\ echo
    /\ dpc = "done"
    /\ RelayReached
    /\ cp["out"].total > 0
    /\ localSend = << >>
    /\ tunRecv = Iota(streamLen)
    /\ localRecv = Iota(streamLen)

\* the totals handleConnection logs
Outbound == Len(initialData) + cp["out"].total
Inbound  == Len(firstResponse) + cp["in"].total

\* C17: after a complete echo flow the outbound total and the inbound total
\* are both the number of bytes the client sent, and TotalBytes has advanced
\* by outbound + inbound.
C17_EchoFlowTotals ==
    EchoFlowComplete =>
        /\ Outbound = streamLen
        /\ Inbound = streamLen
        /\ stats.TotalBytes = Outbound + Inbound

\* no Get call is in progress
NoGetInProgress == \A c \in Callers : gpc[c] \in {"idle", "ret"}

\* the Get calls that have returned a connection, and those whose factory
\* call failed (every caller of Spec calls Get once)
SuccessfulGets == {c \in Callers : gpc[c] = "ret" /\ gres[c].err = "none"}
FailedDialGets == {c \in Callers : gpc[c] = "ret" /\ gres[c].err = "dial"}

\* C18 (as amended): when no Get call is in progress, PoolHits + PoolMisses
\* is the number of Get calls that returned a connection plus the number of
\* Get calls whose factory call failed.
C18_HitsAndMisses ==
    NoGetInProgress =>
        stats.PoolHits + stats.PoolMisses
            = Cardinality(SuccessfulGets) + Cardinality(FailedDialGets)

\* C18 (as stated): when no Get call is in progress, PoolHits + PoolMisses
\* is the number of Get calls that returned a connection.
C18_AsStated ==
    NoGetInProgress =>
        stats.PoolHits + stats.PoolMisses = Cardinality(SuccessfulGets)

C18_Witness ==
    /\ NoGetInProgress
    /\ stats.PoolHits = 1
    /\ stats.PoolMisses = 1
    /\ Cardinality(SuccessfulGets) = 1
    /\ Cardinality(FailedDialGets) = 1

\* C19: every snapshot returned reports ActiveConns <= PeakConns.
C19_ActiveAtMostPeak ==
    snapPc = "done" => snap.ActiveConns <= snap.PeakConns

\* C20: every snapshot returned that saw a count above zero reports
\* min <= avg <= max for the connect_time histogram.
C20_MinAvgMax ==
    (snapPc = "done" /\ snap.count > 0)
        => (snap.Min <= snap.Avg /\ snap.Avg <= snap.Max)

\* the handlers between ConnStart and the deferred ConnEnd, and those that
\* have returned
HandlersActive   == {f \in Flows : fpc[f] \notin {"idle", "start", "done"}}
HandlersReturned == {f \in Flows : fpc[f] = "done"}

\* C21: whichever way a handler returns, it has called ConnEnd once,
\* recorded one lifetime and closed the local stream; ActiveConns is never
\* negative, is the number of handlers between ConnStart and ConnEnd, and is
\* 0 once every handler has returned.
C21_HandlerAccounting ==
    /\ stats.ActiveConns >= 0
    /\ stats.ActiveConns = Cardinality(HandlersActive)
    /\ stats.TotalConns - stats.ActiveConns = Cardinality(HandlersReturned)
    /\ stats.ConnLifetimeCount = Cardinality(HandlersReturned)
    /\ \A f \in HandlersReturned : localClosed[f] >= 1
    /\ (HandlersActive = {} => stats.ActiveConns = 0)

C21_Witness ==
    \E f \in Flows :
        /\ fpc[f] = "done"
        /\ fres[f] = "fwderr"
        /\ stats.TotalConns = 1
        /\ stats.ActiveConns = 0
        /\ stats.ConnLifetimeCount = 1

\* the handler of f has returned after a write of its relay failed, with no
\* shutdown signalled
EndedOnRelayError(f) == fpc[f] = "done" /\ relayErr[f] /\ ~rootDone

\* C22: a flow that has ended after an I/O failure of its relay has
\* incremented ConnErrors (as the flows ended by a failed initial read or a
\* failed write of the first response have).
C22_RelayErrorCounted ==
    \A f \in Flows : EndedOnRelayError(f) => stats.ConnErrors >= 1

\* the handler of f has returned because Run's context was cancelled: its
\* pool.Get returned the context's error with the 30 s timeout not expired,
\* or the cancellation was seen by its relay
EndedOnShutdown(f) ==
    /\ fpc[f] = "done"
    /\ \/ fres[f] = "geterr" /\ gres[f].err = "ctx" /\ ~gctx[f]
       \/ fres[f] = "relayed" /\ cancelSeen[f]

\* C23: a flow that has ended because of the shutdown has not incremented
\* ConnErrors.
C23_ShutdownNotCounted ==
    \A f \in Flows : EndedOnShutdown(f) => stats.ConnErrors = 0

\* the Get call of c has returned the connection it dialed itself
GotDialed(c) ==
    gpc[c] = "ret" /\ gres[c].err = "none" /\ conn[gres[c].id].origin = "get"

\* the Get call of c found the queue empty and took the default branch
\* (every caller of Spec calls Get once)
Missed(c) ==
    gpc[c] = "dial" \/ GotDialed(c) \/ (gpc[c] = "ret" /\ gres[c].err = "dial")

\* C24: every Get call that found the queue empty has counted one miss and
\* made one factory call; a connection the factory returned is returned to
\* that caller, never pooled, with FromPool false and PoolAge 0; a factory
\* error is returned with no connection.
C24_MissDials ==
    /\ stats.PoolMisses = Cardinality({c \in Callers : Missed(c)})
    /\ Cardinality({id \in Ids : conn[id].origin = "get"})
         = Cardinality({c \in Callers : GotDialed(c)})
    /\ \A c \in Callers :
         /\ GotDialed(c) =>
              LET pc == conn[gres[c].id]
              IN /\ ~pc.fromPool /\ pc.poolAge = 0
                 /\ pc.ret = 1 /\ pc.enq = 0 /\ pc.deq = 0 /\ pc.closed = 0
         /\ (gpc[c] = "ret" /\ gres[c].err = "dial") => gres[c].id = NoConn
         /\ gpc[c] = "dial" => gres[c] = NoResult

C24_Witness ==
    \E c, d \in Callers :
        /\ GotDialed(c)
        /\ gpc[d] = "ret" /\ gres[d].err = "dial"
        /\ stats.PoolMisses = 2
        /\ Len(connections) = 0

\* C25: a Get call that is in its select with its context already done
\* returns, when it returns, the context's error and no connection, and
\* leaves PoolHits and PoolMisses alone.
C25_CancelledGetFails ==
    [][\A c \in Callers :
         (gpc[c] = "poll" /\ CtxIsDone(c) /\ gpc'[c] # "poll")
            => /\ gpc'[c] = "ret"
               /\ gres'[c] = [id |-> NoConn, err |-> "ctx"]
               /\ stats'.PoolHits = stats.PoolHits
               /\ stats'.PoolMisses = stats.PoolMisses]_vars

\* the acquire of flow f has returned a tunnel (the handler may have gone on)
AcquireSucceeded(f) ==
    Acquired(f) \/ (fpc[f] \in {"exit", "done"} /\ fres[f] \in {"fwderr", "relayed"})

\* C26: PoolStale is the number of borrowed connections that failed the
\* verify write or the verify read, each of them closed once before the
\* next attempt; an error of pool.Get ends the acquire with nothing more
\* counted; an acquire that succeeds at attempt k has made k Get calls,
\* counted k-1 stale connections and returns a tunnel that is not stale.
C26_StaleAccounting ==
    \A f \in Flows :
        /\ stats.PoolStale = Cardinality(StaleSet)
        /\ attempt[f] = Cardinality(StaleSet)
        /\ \A id \in StaleSet : conn[id].closed = 1 /\ id # Tun(f)
        /\ fres[f] = "geterr" =>
             /\ Borrowed = StaleSet
             /\ gres[f].err # "none" /\ gres[f].id = NoConn
        /\ AcquireSucceeded(f) =>
             /\ attempt[f] < maxRetries
             /\ Cardinality(Borrowed) = attempt[f] + 1
             /\ Borrowed \ StaleSet = {Tun(f)}

C26_Witness ==
    \E f \in Flows :
        /\ fpc[f] = "forward"
        /\ attempt[f] = maxRetries - 1
        /\ stats.PoolStale = maxRetries - 1
        /\ \E id \in StaleSet : conn[id].werr = 1
        /\ \E id \in StaleSet : conn[id].rerr = 1

\* the connections a worker dialed and closed without enqueueing them
Surplus == {id \in Ids : conn[id].origin = "worker" /\ conn[id].enq = 0
                           /\ conn[id].closed > 0}

\* a surplus connection was closed once, is in nobody's hands, and, as long
\* as the pool context is not cancelled, each one was counted as discarded
SurplusGone ==
    /\ \A id \in Surplus :
         /\ conn[id].closed = 1 /\ conn[id].deq = 0 /\ conn[id].ret = 0
         /\ ~InQueue(id)
         /\ \A w \in AllWorkers : whold[w] # id
    /\ stats.PoolDiscarded <= Cardinality(Surplus)
    /\ ~ctxDone => stats.PoolDiscarded = Cardinality(Surplus)

\* C27: a worker that leaves the hand-over wait while the queue is full and
\* the pool context is not cancelled does so only when the ttl wait has
\* expired: it counts one discarded connection, closes the connection once
\* without enqueueing it and returns to the top of its loop to dial again;
\* a connection closed that way is never enqueued or handed out afterwards.
C27_SurplusDiscarded ==
    [][/\ \A w \in AllWorkers :
            (wpc[w] = "send" /\ ~CanSend(connections) /\ ~ctxDone /\ wpc'[w] # "send")
               => /\ Fired(conn[whold[w]].age, TTL)
                  /\ wpc'[w] = "check"
                  /\ stats'.PoolDiscarded = stats.PoolDiscarded + 1
                  /\ conn'[whold[w]].closed = 1
                  /\ conn'[whold[w]].enq = 0
                  /\ connections' = connections
                  /\ whold'[w] = NoConn
       /\ SurplusGone']_vars

\* a surplus connection has been discarded beside a full queue, and its
\* worker is in the factory again
C27_Witness ==
    /\ stats.PoolDiscarded = 1
    /\ ~ctxDone
    /\ Len(connections) = Capacity
    /\ Cardinality(Surplus) = 1
    /\ \A w \in Workers : wpc[w] = "dial"

\* C28: once the pool context is cancelled no connection is enqueued: a
\* worker holding a connection closes it and exits.
C28_NoEnqueueAfterCancel ==
    [][ctxDone =>
         /\ \A id \in Ids : conn'[id].enq = conn[id].enq
         /\ \A w \in AllWorkers :
              (wpc[w] = "send" /\ wpc'[w] # "send")
                 => (wpc'[w] = "done" /\ conn'[whold[w]].closed = 1)]_vars

\* C29: a worker whose factory call fails counts one failure and backs off,
\* unless the shutdown is seen: then it exits and counts nothing; it leaves
\* the backoff to the top of its loop only when the backoff has elapsed, or
\* exits on the cancelled pool context; a factory call is started only from
\* the top of the loop, and never once the shutdown is seen there.
C29_FailureBackoff ==
    [][/\ stats'.PoolFailed # stats.PoolFailed
            => \E w \in AllWorkers : wpc[w] = "dial" /\ wpc'[w] = "backoff"
       /\ \A w \in AllWorkers :
         /\ (wpc[w] = "dial" /\ wpc'[w] \notin {"dial", "send"}) =>
               IF ShutdownSeen
                 THEN wpc'[w] = "done" /\ stats'.PoolFailed = stats.PoolFailed
                 ELSE /\ wpc'[w] = "backoff"
                      /\ stats'.PoolFailed = stats.PoolFailed + 1
                      /\ wtimer'[w] = 0
         /\ (wpc[w] = "backoff" /\ wpc'[w] # "backoff") =>
               \/ wpc'[w] = "check" /\ Fired(wtimer[w], Backoff)
               \/ wpc'[w] = "done" /\ ctxDone
         /\ (wpc[w] = "check" /\ wpc'[w] # "check") =>
               wpc'[w] = IF ShutdownSeen THEN "done" ELSE "dial"
         /\ (wpc[w] # "dial" /\ wpc'[w] = "dial") => wpc[w] = "check"]_vars

\* a factory call of a worker failed, was counted, and after the backoff the
\* worker is in the factory again
C29_Witness ==
    /\ stats.PoolFailed = 1
    /\ nfail = 1
    /\ ~ShutdownSeen
    /\ \E w \in Workers : wpc[w] = "dial"
    /\ \A w \in Workers : wpc[w] # "backoff"
    /\ size = 1

\* connection id leaves the queue in this step, and Stop is not draining
DequeuedByGet(id) == InQueue(id) /\ ~InQueue(id)' /\ spc # "drain"

\* C30: a connection Get dequeues with an age above the ttl is counted as
\* expired once and closed, nothing is returned and no Get call ends; a
\* fresh one is returned open; no connection is ever closed twice, and a
\* connection returned by Get is not closed by the pool.
C30_ExpiredClosedOnce ==
    [][/\ \A id \in Ids :
            DequeuedByGet(id) =>
               IF Fresh(conn[id].age)
                 THEN /\ stats'.PoolExpired = stats.PoolExpired
                      /\ conn'[id].ret = 1 /\ conn'[id].closed = 0
                 ELSE /\ stats'.PoolExpired = stats.PoolExpired + 1
                      /\ stats'.PoolHits = stats.PoolHits
                      /\ conn'[id].ret = 0 /\ conn'[id].closed = 1
                      /\ conn'[id].deq = 1
                      /\ gpc' = gpc /\ gres' = gres
       /\ stats'.PoolExpired # stats.PoolExpired
            => /\ stats'.PoolExpired = stats.PoolExpired + 1
               /\ \E id \in Ids : /\ InQueue(id) /\ ~InQueue(id)'
                                  /\ ~Fresh(conn[id].age)
                                  /\ conn'[id].closed = 1
       /\ \A id \in Ids :
            /\ conn'[id].closed <= 1
            /\ conn'[id].ret > 0 => conn'[id].closed = 0]_vars

\* Get has closed an expired connection and then returned the next entry
C30_Witness ==
    /\ stats.PoolExpired = 1
    /\ stats.PoolHits = 1
    /\ spc = "idle"
    /\ \E id \in Ids : conn[id].deq = 1 /\ conn[id].ret = 0 /\ conn[id].closed = 1

\* a copy of flow f has returned from copyConn
SomeCopyReturned(f) == \E d \in Dirs : cpc[f][d] \in {"close", "end"}

\* both copies of flow f have returned and closed their destinations
BothCopiesEnded(f) == \A d \in Dirs : cpc[f][d] = "end"

\* C31: relay returns only when both copies have ended, and once one copy
\* has returned from copyConn (for whatever reason) both copies end, each
\* having closed its destination.
C31_NoHalfRelay ==
    \A f \in Flows :
        /\ [](fres[f] = "relayed" =>
                (BothCopiesEnded(f) /\ localClosed[f] > 0 /\ TunnelClosed(f)))
        /\ SomeCopyReturned(f) ~> BothCopiesEnded(f)

\* relay has returned with no shutdown signalled: one copy ended on its own
\* source and its close ended the other one
C31_Witness ==
    \E f \in Flows :
        /\ fres[f] = "relayed"
        /\ ~rootDone
        /\ BothCopiesEnded(f)
        /\ wat[f] # "closed"
        /\ localClosed[f] > 0 /\ TunnelClosed(f)

\* len(p.connections), the ready_count of ConnPool.Stats
ReadyCount == Len(connections)

\* a Get has returned a pooled connection
SomeHit == \E c \in Consumers : gpc[c] = "ret" /\ gres[c].id # NoConn /\ conn[gres[c].id].fromPool

\* a Get is at its select and may take from the queue
SomeGetPolling == \E c \in Consumers : gpc[c] = "poll"

\* a worker is inside a factory call the specification does not see return
DialPending == \E w \in Workers : wpc[w] = "dial" /\ ~FactoryCanReturn

\* C32: with a factory that always succeeds and no shutdown, once a Get has
\* taken a warm connection and the queue holds fewer than N, the queue is
\* eventually full again unless another Get is at its select (or a factory
\* call is still pending at the horizon of the specification).
C32_Refill ==
    (SomeHit /\ ReadyCount < size) ~> (ReadyCount = size \/ SomeGetPolling \/ DialPending)

C32_Witness ==
    /\ SomeHit
    /\ stats.PoolHits = 1 /\ stats.PoolMisses = 0
    /\ ReadyCount = size
    /\ \A c \in Consumers : gpc[c] # "poll"
    /\ \E id \in Ids : conn[id].origin = "worker" /\ conn[id].enq = 1 /\ conn[id].deq = 0
                         /\ \E c \in Consumers : gres[c].id # NoConn /\ gres[c].id < id

\* the queue is empty, nothing was created and no Get has a connection
NothingCreated ==
    /\ connections = << >>
    /\ stats.PoolCreated = 0
    /\ \A c \in Consumers :
          /\ gres[c].id = NoConn
          /\ gpc[c] = "ret" => gres[c].err # "none"

\* a worker's factory call returns while the pool is not shut down
ProducerDialFails == \E w \in Workers : wpc[w] = "dial" /\ wpc'[w] # "dial" /\ ~ShutdownSeen

\* C33: with a factory that always fails the queue stays empty, pool_created
\* stays 0, every Get returns an error, pool_failed grows by exactly one at
\* each failed producer dial while the pool is not shut down, and it keeps
\* growing until the pool is shut down (or a factory call is pending at the
\* horizon of the specification).
C33_AlwaysFailing ==
    /\ []NothingCreated
    /\ [][/\ ProducerDialFails => stats'.PoolFailed = stats.PoolFailed + 1
          /\ stats'.PoolFailed # stats.PoolFailed => ProducerDialFails]_vars
    /\ \A k \in 0..(ColdDials + 1) :
          (stats.PoolFailed = k /\ ~ShutdownSeen)
              ~> (stats.PoolFailed > k \/ ShutdownSeen \/ DialPending)

C33_Witness ==
    /\ ~ShutdownSeen
    /\ stats.PoolFailed >= 2
    /\ size = 1 /\ wpc[1] = "backoff"
    /\ \E c \in Consumers : gpc[c] = "ret" /\ gres[c].err = "dial"
    /\ NothingCreated

\* Stop is past its select: the drain loop runs or Stop has returned
StopPastWait == spc \in {"drain", "returned"}

\* a step of Stop's drain loop that takes a connection from the queue
StopTakes ==
    /\ spc = "drain"
    /\ connections # << >>
    /\ connections' = Tail(connections)
    /\ UNCHANGED <<stats, gpc>>

\* C34: a Stop that was called returns, even when a worker never comes back
\* from the factory; it leaves its select only when every worker has exited
\* or the grace has expired; and it closes every connection its drain loop
\* takes from the queue.
C34_StopTerminates ==
    /\ (spc # "idle") ~> (spc = "returned")
    /\ [](StopPastWait => (WorkersDone \/ swarned))
    /\ [][StopTakes =>
            conn'[Head(connections)].closed = conn[Head(connections)].closed + 1]_vars

\* Stop has returned on the timer, a worker being still inside the factory,
\* after draining and closing a queued connection
C34_Witness ==
    /\ spc = "returned"
    /\ swarned
    /\ \E w \in Workers : wpc[w] = "dial"
    /\ stats.PoolExpired = 0
    /\ \E id \in Ids : conn[id].enq = 1 /\ conn[id].deq = 1 /\ conn[id].ret = 0
                         /\ conn[id].closed = 1

\* every record operation has returned
AllRecorded == \A r \in Recorders : rec[r].pc = "done"

\* every ConnStart has returned
AllStarted == \A h \in Handlers : cs[h].pc \in {"run", "done"}

\* C35: once the concurrent record operations have completed, the
\* histogram's min is the smallest and its max the largest recorded sample;
\* once the concurrent ConnStart calls have completed, peak_conns is the
\* largest value ActiveConns.Add(1) returned to any of them.
C35_NoLostSample ==
    /\ AllRecorded =>
          /\ \E r \in Recorders : stats.ConnectTimeMin = rec[r].ns
          /\ \A r \in Recorders : stats.ConnectTimeMin <= rec[r].ns
          /\ \E r \in Recorders : stats.ConnectTimeMax = rec[r].ns
          /\ \A r \in Recorders : stats.ConnectTimeMax >= rec[r].ns
    /\ AllStarted =>
          /\ \E h \in Handlers : stats.peakActiveConns = cs[h].active
          /\ \A h \in Handlers : stats.peakActiveConns >= cs[h].active

C35_Witness ==
    /\ AllRecorded
    /\ AllStarted
    /\ \E r1, r2 \in Recorders : rec[r1].ns < rec[r2].ns
    /\ stats.ConnectTimeMin < stats.ConnectTimeMax
    /\ stats.peakActiveConns = Cardinality(Handlers)

\* C36: every tunnel a flow obtained from pool.Get is closed when its handler
\* has returned, whatever the path; a tunnel that failed verification is
\* closed inside acquire, as soon as it is found stale.
C36_NoBorrowedOutlivesFlow ==
    /\ \A id \in StaleSet : conn[id].closed > 0
    /\ (\A f \in Flows : fpc[f] = "done") => \A id \in Borrowed : conn[id].closed > 0

\* the handler has returned after a stale tunnel and a verified one whose
\* first response could not be forwarded
C36_Witness ==
    \E f \in Flows :
        /\ fpc[f] = "done"
        /\ fres[f] = "fwderr"
        /\ StaleSet # {}
        /\ Tun(f) # NoConn /\ Tun(f) \notin StaleSet
        /\ \A id \in Borrowed : conn[id].closed > 0

\* the Get call of c took a fresh connection from the queue
HitBy(c) == gpc[c] \in {"record", "ret"} /\ gres[c].id # NoConn /\ conn[gres[c].id].fromPool

\* what a step of the Get call of c does to PoolHits and PoolMisses
GetCounts(c, hits, misses) ==
    /\ stats'.PoolHits = stats.PoolHits + hits
    /\ stats'.PoolMisses = stats.PoolMisses + misses

\* C37: a Get call adds to the hit/miss counters on exactly one of its
\* paths: 1 to PoolHits only when it takes a fresh connection, 1 to
\* PoolMisses only when it finds the queue empty (whatever the factory then
\* returns), nothing when it leaves its select with the context's error;
\* an expired connection adds to PoolExpired only, and the number of
\* pool_age samples never exceeds PoolHits.
C37_OneCountPerGet ==
    /\ [](/\ stats.PoolAgeCount <= stats.PoolHits
          /\ stats.PoolHits = Cardinality({c \in Callers : HitBy(c)})
          /\ stats.PoolMisses = Cardinality({c \in Callers : Missed(c)}))
    /\ [][\A c \in Callers :
            /\ (gpc[c] = "poll" /\ gpc'[c] = "record") => (HitBy(c)' /\ GetCounts(c, 1, 0))
            /\ (gpc[c] = "poll" /\ gpc'[c] = "dial") => GetCounts(c, 0, 1)
            /\ (gpc[c] = "poll" /\ gpc'[c] = "ret")
                  => (gres'[c] = [id |-> NoConn, err |-> "ctx"] /\ GetCounts(c, 0, 0))
            /\ (gpc[c] \in {"dial", "record"} /\ gpc'[c] = "ret") => GetCounts(c, 0, 0)
            /\ (gpc' = gpc) => GetCounts(c, 0, 0)]_vars

\* one Get has hit and recorded its pool age; another has thrown an expired
\* connection away and then missed
C37_Witness ==
    /\ stats.PoolHits = 1 /\ stats.PoolAgeCount = 1
    /\ stats.PoolExpired = 1 /\ stats.PoolMisses = 1
    /\ \E c, d \in Consumers : gpc[c] = "ret" /\ HitBy(c) /\ gpc[d] = "dial"

\* the open connections workers created that no Get has returned
Unborrowed == {id \in Ids : conn[id].origin = "worker" /\ conn[id].ret = 0 /\ conn[id].closed = 0}

\* the connections in the workers' hands
InHand == {whold[w] : w \in Workers} \ {NoConn}

\* C38: the open connections that workers created and no Get has returned
\* number at most 2N: each is in the queue, which holds at most N, or in
\* the hand of one of the N workers, which holds one at a time.
C38_AtMostTwoN ==
    /\ Cardinality(Unborrowed) <= 2 * size
    /\ Len(connections) <= size
    /\ Unborrowed \subseteq ({connections[i] : i \in 1..Len(connections)} \cup InHand)

\* a full queue and every worker holding one more connection, after other
\* connections have been handed out or closed
C38_Witness ==
    /\ Cardinality(Unborrowed) = 2 * size
    /\ Len(connections) = size
    /\ Cardinality(InHand) = size
    /\ Len(conn) > 2 * size

\* the handler of some flow is running
SomeFlowRunning == \E f \in Flows : fpc[f] \notin {"idle", "done"}

\* C39: Run calls pool.Stop only when the accept loop has ended and every
\* handler has returned; no flow is inside pool.Get while or after Stop
\* runs, and while a handler runs the pool is not shut down and no worker
\* has exited.
C39_StopAfterFlows ==
    /\ spc # "idle" =>
          /\ rpc \in {"stop", "done"}
          /\ listenerClosed
          /\ HandlersDone
          /\ \A f \in Flows : gpc[f] \in {"idle", "ret"} /\ ~gafter[f]
    /\ SomeFlowRunning =>
          /\ ~ShutdownSeen
          /\ \A w \in Workers : wpc[w] # "done"

\* Stop has returned to Run after a flow that used the pool was relayed
C39_Witness ==
    /\ rpc = "done"
    /\ spc = "returned"
    /\ \E f \in Flows : fpc[f] = "done" /\ fres[f] = "relayed" /\ gpc[f] = "ret"
    /\ \A w \in Workers : wpc[w] = "done"

\* the watcher goroutine of flow f has ended
WatcherGone(f) == wat[f] \in {"exit", "closed"}

\* C40: once relay has returned the watcher ends; it leaves through connDone
\* only after relay has returned and closes nothing on that way, and it
\* closes streams only when the context is cancelled.
C40_WatcherEnds ==
    /\ \A f \in Flows : (fres[f] = "relayed") ~> WatcherGone(f)
    /\ [](\A f \in Flows : wat[f] \in {"closeLocal", "closeTunnel", "closed"} => rootDone)
    /\ [][\A f \in Flows :
            (wat[f] = "select" /\ wat'[f] = "exit")
               => (fres[f] = "relayed" /\ UNCHANGED <<localClosed, conn>>)]_vars

\* the flow has ended, the context was never cancelled, and the watcher has
\* left through connDone
C40_Witness ==
    \E f \in Flows :
        /\ fpc[f] = "done"
        /\ fres[f] = "relayed"
        /\ ~rootDone
        /\ wat[f] = "exit"
        /\ localClosed[f] > 0 /\ TunnelClosed(f)
====
